---- MODULE Spec2Model ----
(***************************************************************************)
(* Model of the ESIA gateway (zzzvalik11/esia_fastapi): the authorization  *)
(* request ledger, the user / token store and the organization /           *)
(* membership reconciliation, as implemented by the repositories, the      *)
(* services and the HTTP handlers under src/app.                           *)
(*                                                                         *)
(* The relational store is modelled as sets of rows; a commit is atomic.   *)
(* The schema constraints are those of the alembic migration               *)
(* (src/alembic/versions/001_create_esia_tables.py).                       *)
(***************************************************************************)
EXTENDS Integers, FiniteSets, Sequences, TLC

\* ------------------------------------------------------------------------
\* Bounds of the model
\* ------------------------------------------------------------------------
NumStates == 2
NumUids == 2
NumOids == 1
MaxTokens == 3
MaxTime == 2
MaxOrgs == 1
MaxMemberships == 2
MaxBatch == 2
MaxScopeTokens == 2
MaxElements == 2

\* None / NULL of an optional column or parameter ("" is falsy as well)
Null == 0
\* an attribute the session has not modified; <<v>> is an attribute set to v
Unmodified == <<>>

States == 1..NumStates
\* Opaque strings (authorization code, error, redirect URI, first name,
\* access token): the program stores them and never compares two of them,
\* so one value of each, besides Null, covers what it does with them.
Codes == {1}
Errors == {1}
Uris == {1}
\* ids of ledger rows: state is unique, so there are at most NumStates rows
AuthIds == 1..NumStates
\* external subject identifiers (esia_uid) and internal user ids
Uids == 1..NumUids
UserIds == 1..NumUids
Names == {1}
AccessTokens == {1}
\* external organization identifiers (esia_oid)
Oids == 1..NumOids
OrgIds == 1..NumOids

VARIABLES
    ledger,                \* table authorization_requests (committed rows)
    nextAuthId,            \* autoincrement of authorization_requests.id
    session,               \* uncommitted attribute changes held by the caller's Session
    users,                 \* table users
    nextUserId,            \* autoincrement of users.id
    tokens,                \* table user_tokens
    nextTokenId,           \* autoincrement of user_tokens.id
    orgs,                  \* table organizations
    nextOrgId,             \* autoincrement of organizations.id
    memberships,           \* table user_organizations
    groups,                \* table organization_groups
    nextGroupId,           \* its id sequence
    inflight,              \* requests between two of their statements
    now,                   \* the database clock (func.now())
    resp                   \* outcome of the last operation

ledgerVars == <<ledger, nextAuthId, session>>
userVars == <<users, nextUserId>>
tokenVars == <<tokens, nextTokenId>>
orgVars == <<orgs, nextOrgId, memberships>>
groupVars == <<groups, nextGroupId>>
storeVars == <<userVars, tokenVars, orgVars, groupVars, now, inflight>>
vars == <<ledgerVars, storeVars, resp>>

\* ------------------------------------------------------------------------
\* Authorization request ledger: rows, session, repository
\* ------------------------------------------------------------------------

\* A row as AuthorizationRequest(**request_data) inserts it: the nullable
\* columns are NULL, is_completed takes its default False.
NewAuthorizationRequest(id, state, uri) ==
    [id |-> id, state |-> state, redirect_uri |-> uri,
     authorization_code |-> Null, error |-> Null,
     completed_at |-> Null, is_completed |-> FALSE]

\* The attribute changes a Session holds for one loaded row.
CleanObject ==
    [authorization_code |-> Unmodified, error |-> Unmodified, is_completed |-> Unmodified]

\* A Session with nothing to flush: SessionLocal() of get_db, or a session
\* after commit / rollback / close.
FreshSession == [id \in AuthIds |-> CleanObject]

\* What the UPDATE of a flush writes for one row: the modified attributes only.
ApplyObject(row, obj) ==
    [row EXCEPT
        !.authorization_code =
            IF obj.authorization_code = Unmodified THEN @ ELSE obj.authorization_code[1],
        !.error = IF obj.error = Unmodified THEN @ ELSE obj.error[1],
        !.is_completed = IF obj.is_completed = Unmodified THEN @ ELSE obj.is_completed[1]]

\* Session.commit(): flushes every modified object of the session.
Flush(rows, sess) == { ApplyObject(r, sess[r.id]) : r \in rows }

\* Mutant of ViolatesUniqueState: the column is declared without unique.
ViolatesUniqueStateDropped(rows, state) == FALSE

\* The UNIQUE constraint on authorization_requests.state: whether inserting
\* a row with this state violates it.
ViolatesUniqueState(rows, state) == \E r \in rows : r.state = state

\* Whether the query of get_by_state finds a row.
StateTaken(rows, state) == \E r \in rows : r.state = state

\* AuthorizationRequestRepository.get_by_state: the first row with that state
\* (callers test StateTaken for the None case).
GetByState(rows, state) == CHOOSE r \in rows : r.state = state

\* Mutant of AuthRequestCreate: create purges the completed requests.
AuthRequestCreatePurging(rows, sess, id, state, uri) ==
    IF ViolatesUniqueState(rows, state)
    THEN [rows |-> rows, sess |-> FreshSession, ret |-> "IntegrityError"]
    ELSE [rows |-> { r \in Flush(rows, sess) : ~r.is_completed }
                    \cup {NewAuthorizationRequest(id, state, uri)},
          sess |-> FreshSession, ret |-> "row"]

\* AuthorizationRequestRepository.create on the session sess: add + commit.
\* The commit flushes the session; a duplicate state violates the unique
\* constraint, the transaction is rolled back and IntegrityError is raised.
AuthRequestCreate(rows, sess, id, state, uri) ==
    IF ViolatesUniqueState(rows, state)
    THEN [rows |-> rows, sess |-> FreshSession, ret |-> "IntegrityError"]
    ELSE [rows |-> Flush(rows, sess) \cup {NewAuthorizationRequest(id, state, uri)},
          sess |-> FreshSession, ret |-> "row"]

\* An update_with_code that swallows its failure: nothing is committed, and
\* the row is returned as if it had been.
UpdateWithCodeSwallowing(rows, sess, state, code) ==
    IF ~StateTaken(rows, state)
    THEN [rows |-> rows, sess |-> sess, ret |-> "None"]
    ELSE [rows |-> rows, sess |-> sess, ret |-> "row"]

\* Mutant of UpdateWithCode: the "if not db_request: return None" test is
\* missing, the assignment to None raises AttributeError.
UpdateWithCodeUnchecked(rows, sess, state, code) ==
    LET db_request == GetByState(rows, state) IN
    IF ~StateTaken(rows, state)
    THEN [rows |-> rows, sess |-> sess, ret |-> "AttributeError"]
    ELSE [rows |-> rows,
          sess |-> [sess EXCEPT ![db_request.id] =
                       [@ EXCEPT !.authorization_code = <<code>>,
                                  !.is_completed = <<TRUE>>]],
          ret |-> "NameError"]

\* AuthorizationRequestRepository.update_with_code on the session sess.
\* The module never imports func: after the two attribute assignments,
\* func.now() raises NameError, before the commit.
UpdateWithCode(rows, sess, state, code) ==
    LET db_request == GetByState(rows, state) IN
    IF ~StateTaken(rows, state)
    THEN [rows |-> rows, sess |-> sess, ret |-> "None"]
    ELSE [rows |-> rows,
          sess |-> [sess EXCEPT ![db_request.id] =
                       [@ EXCEPT !.authorization_code = <<code>>,
                                  !.is_completed = <<TRUE>>]],
          ret |-> "NameError"]

\* AuthorizationRequestRepository.update_with_error on the session sess:
\* same shape, func.now() raises NameError before the commit.
UpdateWithError(rows, sess, state, error) ==
    LET db_request == GetByState(rows, state) IN
    IF ~StateTaken(rows, state)
    THEN [rows |-> rows, sess |-> sess, ret |-> "None"]
    ELSE [rows |-> rows,
          sess |-> [sess EXCEPT ![db_request.id] =
                       [@ EXCEPT !.error = <<error>>, !.is_completed = <<TRUE>>]],
          ret |-> "NameError"]

\* What a callback or an update acts on: the error when there is one (the
\* handlers test "if error:" first), else the code, else nothing.
Given(code, error) ==
    IF error # Null THEN "error" ELSE IF code # Null THEN "code" ELSE "none"

\* The outcome record of an operation: the state it named, what it was
\* given, the HTTP status (0: not an HTTP request), what the repository call
\* returned or raised, and the Location of a redirect.
Outcome(op, state, code, error, status, ret, loc_uri, loc_code) ==
    [op |-> op, state |-> state, given |-> Given(code, error),
     status |-> status, ret |-> ret, loc_uri |-> loc_uri, loc_code |-> loc_code]

\* ------------------------------------------------------------------------
\* Ledger operations called on a session the caller keeps
\* (repositories take the Session as a parameter; tests/conftest.py db_session)
\* ------------------------------------------------------------------------

CallCreate(state, uri) ==
    LET r == AuthRequestCreate(ledger, session, nextAuthId, state, uri) IN
    /\ ledger' = r.rows
    /\ session' = r.sess
    /\ nextAuthId' = IF r.ret = "row" THEN nextAuthId + 1 ELSE nextAuthId
    /\ resp' = Outcome("create", state, Null, Null, 0, r.ret, Null, Null)
    /\ UNCHANGED storeVars

CallUpdateWithCode(state, code) ==
    LET r == UpdateWithCode(ledger, session, state, code) IN
    /\ ledger' = r.rows
    /\ session' = r.sess
    /\ resp' = Outcome("update_with_code", state, code, Null, 0, r.ret, Null, Null)
    /\ UNCHANGED <<nextAuthId, storeVars>>

CallUpdateWithError(state, error) ==
    LET r == UpdateWithError(ledger, session, state, error) IN
    /\ ledger' = r.rows
    /\ session' = r.sess
    /\ resp' = Outcome("update_with_error", state, Null, error, 0, r.ret, Null, Null)
    /\ UNCHANGED <<nextAuthId, storeVars>>

CallGetByState(state) ==
    /\ resp' = Outcome("get_by_state", state, Null, Null, 0,
                       IF StateTaken(ledger, state) THEN "row" ELSE "None", Null, Null)
    /\ UNCHANGED <<ledger, nextAuthId, session, storeVars>>

\* Session.close() / rollback(): the uncommitted changes are dropped.
CloseSession ==
    /\ session # FreshSession
    /\ session' = FreshSession
    /\ resp' = Outcome("close", Null, Null, Null, 0, "None", Null, Null)
    /\ UNCHANGED <<ledger, nextAuthId, storeVars>>

\* External identifiers (state, esia_uid, esia_oid) are opaque strings the
\* program only tests for equality: the model names them in the order in
\* which they are first stored.  Named(taken, all) is what an operation may
\* name: an identifier already stored, or the next one never stored.
Named(taken, all) == { x \in all : \A y \in all : y < x => y \in taken }
StoredStates == { r.state : r \in ledger }
StoredUids == { u.esia_uid : u \in users }
StoredOids == { o.esia_oid : o \in orgs }

\* Two requests are served at a time, each on a Session of its own
\* (get_db).  Between two of its statements a request remembers what it was
\* called with (arg, data) and what its query returned (seen).
Requests == {"a", "b"}
Idle == [pc |-> "idle", arg |-> Null, data |-> Null, seen |-> {}]

\* The empty database.
Init ==
    /\ ledger = {}
    /\ nextAuthId = 1
    /\ session = FreshSession
    /\ users = {}
    /\ nextUserId = 1
    /\ tokens = {}
    /\ nextTokenId = 1
    /\ orgs = {}
    /\ nextOrgId = 1
    /\ memberships = {}
    /\ groups = {}
    /\ nextGroupId = 1
    /\ inflight = [p \in Requests |-> Idle]
    /\ now = 0
    /\ resp = Outcome("init", Null, Null, Null, 0, "None", Null, Null)

\* ------------------------------------------------------------------------
\* Users: repository and reconciliation (UserRepository, UserService)
\* ------------------------------------------------------------------------

\* dict.get(key, default), and the default of a schema field that was not
\* passed.
Get(d, key, default) == IF key \in DOMAIN d THEN d[key] ELSE default

\* The row User(**user_data.model_dump()) inserts.  Of the claim columns the
\* model keeps first_name (last_name, middle_name, status, e_tag and
\* updated_on are copied the same way), trusted (as verifying: a flag that
\* reads False when the claim is absent) and r_id_doc (as
\* contains_up_cfm_code: a column only UserCreate has).
NewUser(id, user_data, t) ==
    [id |-> id, esia_uid |-> user_data.esia_uid,
     first_name |-> user_data.first_name,
     trusted |-> Get(user_data, "trusted", FALSE),
     r_id_doc |-> Get(user_data, "r_id_doc", Null),
     created_at |-> t, updated_at |-> t]

\* Whether UserRepository.get_by_esia_uid finds a row, and the row it finds.
UidTaken(rows, esia_uid) == \E u \in rows : u.esia_uid = esia_uid
UserGetByEsiaUid(rows, esia_uid) == CHOOSE u \in rows : u.esia_uid = esia_uid

\* Mutant of ViolatesUniqueEsiaUid: the table has no unique index.
ViolatesUniqueEsiaUidDropped(rows, esia_uid) == FALSE

\* The UNIQUE constraint on users.esia_uid.
ViolatesUniqueEsiaUid(rows, esia_uid) == \E u \in rows : u.esia_uid = esia_uid

\* UserRepository.create: add + commit.
UserRepoCreate(rows, id, user_data, t) ==
    IF ViolatesUniqueEsiaUid(rows, user_data.esia_uid)
    THEN [rows |-> rows, ret |-> "IntegrityError", id |-> Null]
    ELSE [rows |-> rows \cup {NewUser(id, user_data, t)}, ret |-> "row", id |-> id]

\* Mutant of UserRepoUpdate: created_at is refreshed like updated_at.
UserRepoUpdateRefreshesCreatedAt(rows, user_id, user_data, t) ==
    IF ~\E u \in rows : u.id = user_id
    THEN [rows |-> rows, ret |-> "None", id |-> Null]
    ELSE LET db_user == CHOOSE u \in rows : u.id = user_id
             set == [f \in DOMAIN db_user |->
                       IF f \in DOMAIN user_data THEN user_data[f] ELSE db_user[f]]
             stored == IF set = db_user THEN db_user
                       ELSE [set EXCEPT !.updated_at = t, !.created_at = t]
         IN [rows |-> (rows \ {db_user}) \cup {stored}, ret |-> "row", id |-> user_id]

\* Mutant of UserRepoUpdate: a None of the patch leaves the column as it is.
UserRepoUpdateSkippingNone(rows, user_id, user_data, t) ==
    IF ~\E u \in rows : u.id = user_id
    THEN [rows |-> rows, ret |-> "None", id |-> Null]
    ELSE LET db_user == CHOOSE u \in rows : u.id = user_id
             set == [f \in DOMAIN db_user |->
                       IF f \in DOMAIN user_data
                          /\ ~(f = "first_name" /\ user_data[f] = Null)
                       THEN user_data[f] ELSE db_user[f]]
             stored == IF set = db_user THEN db_user ELSE [set EXCEPT !.updated_at = t]
         IN [rows |-> (rows \ {db_user}) \cup {stored}, ret |-> "row", id |-> user_id]

\* UserRepository.update: setattr for every field the patch was given
\* (model_dump(exclude_unset=True)), a None included; commit.
\* updated_at (onupdate=func.now()) changes when an UPDATE is emitted, that
\* is when some attribute changed.
UserRepoUpdate(rows, user_id, user_data, t) ==
    IF ~\E u \in rows : u.id = user_id
    THEN [rows |-> rows, ret |-> "None", id |-> Null]
    ELSE LET db_user == CHOOSE u \in rows : u.id = user_id
             set == [f \in DOMAIN db_user |->
                       IF f \in DOMAIN user_data THEN user_data[f] ELSE db_user[f]]
             stored == IF set = db_user THEN db_user ELSE [set EXCEPT !.updated_at = t]
         IN [rows |-> (rows \ {db_user}) \cup {stored}, ret |-> "row", id |-> user_id]

\* UserService.create_or_update_user_from_esia.  Null in info: key absent.
CreateOrUpdateUserFromEsia(rows, id, esia_data, t) ==
    LET user_info == esia_data.info
        esia_uid == IF user_info.uid = Null THEN esia_data.sub ELSE user_info.uid
    IN
    IF UidTaken(rows, esia_uid)
    THEN UserRepoUpdate(rows, UserGetByEsiaUid(rows, esia_uid).id,
                        [first_name |-> user_info.firstName,
                         trusted |-> Get(user_info, "trusted", FALSE)], t)
    ELSE UserRepoCreate(rows, id,
                        [esia_uid |-> esia_uid, first_name |-> user_info.firstName,
                         trusted |-> Get(user_info, "trusted", FALSE),
                         r_id_doc |-> Get(user_info, "rIdDoc", Null)], t)

CallCreateOrUpdateUserFromEsia(sub, uid, firstName) ==
    LET esia_data == [sub |-> sub, info |-> [uid |-> uid, firstName |-> firstName]]
        r == CreateOrUpdateUserFromEsia(users, nextUserId, esia_data, now)
    IN
    /\ users' = r.rows
    /\ nextUserId' = IF r.id = nextUserId THEN nextUserId + 1 ELSE nextUserId
    /\ resp' = [op |-> "create_or_update_user_from_esia",
                esia_uid |-> IF uid = Null THEN sub ELSE uid,
                ret |-> r.ret, id |-> r.id]
    /\ UNCHANGED <<ledgerVars, tokenVars, orgVars, now, groupVars, inflight>>

\* The same call with any claims: firstName (Null: absent), and the keys
\* trusted and rIdDoc, each present or not.
CallCreateOrUpdateUserFromEsiaWith(sub, user_info) ==
    LET esia_data == [sub |-> sub, info |-> user_info]
        r == CreateOrUpdateUserFromEsia(users, nextUserId, esia_data, now)
    IN
    /\ users' = r.rows
    /\ nextUserId' = IF r.id = nextUserId THEN nextUserId + 1 ELSE nextUserId
    /\ resp' = [op |-> "create_or_update_user_from_esia_with", esia_uid |-> sub,
                info |-> user_info, found |-> UidTaken(users, sub),
                ret |-> r.ret, id |-> r.id]
    /\ UNCHANGED <<ledgerVars, tokenVars, orgVars, groupVars, now, inflight>>

\* Time passes on the database clock.
Tick ==
    /\ now < MaxTime
    /\ now' = now + 1
    /\ resp' = [op |-> "tick"]
    /\ UNCHANGED <<ledgerVars, userVars, tokenVars, orgVars, groupVars, inflight>>

NextUser ==
    \/ \E sub \in Uids, uid \in {Null} \cup Uids, fn \in {Null} \cup Names :
          /\ (IF uid = Null THEN sub ELSE uid) \in Named(StoredUids, Uids)
          /\ CallCreateOrUpdateUserFromEsia(sub, uid, fn)
    \/ Tick

SpecUser == Init /\ [][NextUser]_vars

\* Document ids of the claims.
RIdDocs == {1}

\* The claims a reconciliation is given: with or without a first name, a
\* trusted flag and a document id.
UserInfos ==
    { [uid |-> Null, firstName |-> fn] @@ tr @@ rid :
         fn \in {Null} \cup Names,
         tr \in {<<>>} \cup { [trusted |-> b] : b \in BOOLEAN },
         rid \in {<<>>} \cup { [rIdDoc |-> d] : d \in RIdDocs } }

NextPatch ==
    \/ \E sub \in Named(StoredUids, Uids), info \in UserInfos :
          CallCreateOrUpdateUserFromEsiaWith(sub, info)

SpecPatch == Init /\ [][NextPatch]_vars

\* ------------------------------------------------------------------------
\* Tokens (UserTokenRepository, UserService.save_user_token)
\* ------------------------------------------------------------------------

\* The row UserToken(**token_data.model_dump()) inserts: is_active takes its
\* default True.
NewUserToken(id, user_id, access_token) ==
    [id |-> id, user_id |-> user_id, access_token |-> access_token, is_active |-> TRUE]

\* The FOREIGN KEY user_tokens.user_id -> users.id.
ViolatesUserForeignKey(urows, user_id) == ~\E u \in urows : u.id = user_id

\* The rows the filter of the bulk UPDATE of create matches.
ActiveTokensOf(rows, user_id) == { t \in rows : t.user_id = user_id /\ t.is_active }

\* Mutant of DeactivateActiveTokens: the bulk UPDATE is missing.
DeactivateActiveTokensMissing(rows, user_id) == rows

\* The bulk UPDATE of create: the user's active tokens become inactive.
DeactivateActiveTokens(rows, user_id) ==
    { IF t.user_id = user_id /\ t.is_active THEN [t EXCEPT !.is_active = FALSE] ELSE t :
      t \in rows }

\* UserTokenRepository.create: bulk update, add, commit (one transaction).
UserTokenRepoCreate(rows, urows, id, user_id, access_token) ==
    IF ViolatesUserForeignKey(urows, user_id)
    THEN [rows |-> rows, ret |-> "IntegrityError"]
    ELSE [rows |-> DeactivateActiveTokens(rows, user_id)
                    \cup {NewUserToken(id, user_id, access_token)},
          ret |-> "row"]

\* UserService.save_user_token: token_data["access_token"] raises KeyError
\* when the key is missing (Null).
SaveUserToken(rows, urows, id, user_id, access_token) ==
    IF access_token = Null
    THEN [rows |-> rows, ret |-> "KeyError"]
    ELSE UserTokenRepoCreate(rows, urows, id, user_id, access_token)

\* UserTokenRepository.deactivate_user_tokens: bulk UPDATE of every token of
\* the user, commit.
DeactivateUserTokens(rows, user_id) ==
    { IF t.user_id = user_id THEN [t EXCEPT !.is_active = FALSE] ELSE t : t \in rows }

CallSaveUserToken(user_id, access_token) ==
    LET r == SaveUserToken(tokens, users, nextTokenId, user_id, access_token) IN
    /\ nextTokenId <= MaxTokens
    /\ tokens' = r.rows
    /\ nextTokenId' = IF r.ret = "row" THEN nextTokenId + 1 ELSE nextTokenId
    /\ resp' = [op |-> "save_user_token", user_id |-> user_id, ret |-> r.ret,
                id |-> IF r.ret = "row" THEN nextTokenId ELSE Null]
    /\ UNCHANGED <<ledgerVars, userVars, orgVars, now, groupVars, inflight>>

CallDeactivateUserTokens(user_id) ==
    /\ tokens' = DeactivateUserTokens(tokens, user_id)
    /\ resp' = [op |-> "deactivate_user_tokens", user_id |-> user_id, ret |-> "None",
                id |-> Null]
    /\ UNCHANGED <<nextTokenId, ledgerVars, userVars, orgVars, now, groupVars, inflight>>

NextToken ==
    \/ \E sub \in Named(StoredUids, Uids) : CallCreateOrUpdateUserFromEsia(sub, Null, Null)
    \/ \E u \in UserIds, a \in {Null} \cup AccessTokens : CallSaveUserToken(u, a)
    \/ \E u \in UserIds : CallDeactivateUserTokens(u)

SpecToken == Init /\ [][NextToken]_vars

\* ------------------------------------------------------------------------
\* Two requests at a time (one Session and one transaction each)
\* ------------------------------------------------------------------------

\* Nothing in the code orders two requests: no lock, no SELECT ... FOR UPDATE,
\* no isolation level on the engine.  A statement sees what was committed
\* when it runs; the statements of two requests interleave in any order,
\* and the engine may end a transaction with an error instead of letting it
\* wait (deadlock, lock wait timeout).

\* UserTokenRepository.create, first statement: the bulk UPDATE marks the
\* user's active tokens (those committed by now) inactive in the
\* transaction of the request.
BeginSaveUserToken(p, user_id, access_token) ==
    /\ inflight[p].pc = "idle"
    /\ inflight' = [inflight EXCEPT ![p] =
          [pc |-> "deactivated", arg |-> user_id, data |-> access_token,
           seen |-> { t.id : t \in ActiveTokensOf(tokens, user_id) }]]
    /\ resp' = [op |-> "begin_save_user_token", user_id |-> user_id, ret |-> "None",
                id |-> Null]
    /\ UNCHANGED <<ledgerVars, userVars, tokenVars, orgVars, groupVars, now>>

\* UserTokenRepository.create, add + commit: the INSERT is flushed and the
\* transaction committed, with the rows its UPDATE had matched.
CommitSaveUserToken(p) ==
    LET user_id == inflight[p].arg
        marked == { IF t.id \in inflight[p].seen THEN [t EXCEPT !.is_active = FALSE] ELSE t :
                    t \in tokens }
        failed == ViolatesUserForeignKey(users, user_id)
    IN
    /\ inflight[p].pc = "deactivated"
    /\ nextTokenId <= MaxTokens
    /\ tokens' = IF failed THEN tokens
                 ELSE marked \cup {NewUserToken(nextTokenId, user_id, inflight[p].data)}
    /\ nextTokenId' = IF failed THEN nextTokenId ELSE nextTokenId + 1
    /\ inflight' = [inflight EXCEPT ![p] = Idle]
    /\ resp' = [op |-> "save_user_token", user_id |-> user_id,
                ret |-> IF failed THEN "IntegrityError" ELSE "row",
                id |-> IF failed THEN Null ELSE nextTokenId]
    /\ UNCHANGED <<ledgerVars, userVars, orgVars, groupVars, now>>

\* create_or_update_user_from_esia, first statement: get_by_esia_uid.
BeginCreateOrUpdateUserFromEsia(p, sub, firstName) ==
    /\ inflight[p].pc = "idle"
    /\ inflight' = [inflight EXCEPT ![p] =
          [pc |-> "looked_up", arg |-> sub, data |-> firstName,
           seen |-> { u.id : u \in { v \in users : v.esia_uid = sub } }]]
    /\ resp' = [op |-> "get_by_esia_uid", esia_uid |-> sub,
                ret |-> IF UidTaken(users, sub) THEN "row" ELSE "None", id |-> Null]
    /\ UNCHANGED <<ledgerVars, userVars, tokenVars, orgVars, groupVars, now>>

\* create_or_update_user_from_esia, the rest: update of the row the lookup
\* found, or create when it found none.
FinishCreateOrUpdateUserFromEsia(p) ==
    LET esia_uid == inflight[p].arg
        user_data == [esia_uid |-> esia_uid, first_name |-> inflight[p].data]
        r == IF inflight[p].seen # {}
             THEN UserRepoUpdate(users, CHOOSE i \in inflight[p].seen : TRUE,
                                 [first_name |-> inflight[p].data, trusted |-> FALSE], now)
             ELSE UserRepoCreate(users, nextUserId, user_data, now)
    IN
    /\ inflight[p].pc = "looked_up"
    /\ users' = r.rows
    /\ nextUserId' = IF r.id = nextUserId THEN nextUserId + 1 ELSE nextUserId
    /\ inflight' = [inflight EXCEPT ![p] = Idle]
    /\ resp' = [op |-> "create_or_update_user_from_esia", esia_uid |-> esia_uid,
                ret |-> r.ret, id |-> r.id, found |-> inflight[p].seen # {}]
    /\ UNCHANGED <<ledgerVars, tokenVars, orgVars, groupVars, now>>

\* The engine ends the transaction of a request with an error; nothing of
\* it is stored.
AbortRequest(p) ==
    /\ inflight[p].pc # "idle"
    /\ inflight' = [inflight EXCEPT ![p] = Idle]
    /\ resp' = [op |-> "abort", ret |-> "OperationalError", id |-> Null]
    /\ UNCHANGED <<ledgerVars, userVars, tokenVars, orgVars, groupVars, now>>

\* Two reconciliations at a time, for the same or for different users.
NextUserRace ==
    \/ \E p \in Requests, sub \in Named(StoredUids, Uids), fn \in {Null} \cup Names :
          BeginCreateOrUpdateUserFromEsia(p, sub, fn)
    \/ \E p \in Requests : FinishCreateOrUpdateUserFromEsia(p)
    \/ \E p \in Requests : AbortRequest(p)

SpecUserRace == Init /\ [][NextUserRace]_vars

\* Users register one after the other; two token creations at a time.
NextTokenRace ==
    \/ \E sub \in Named(StoredUids, Uids) : CallCreateOrUpdateUserFromEsia(sub, Null, Null)
    \/ \E p \in Requests, u \in { v.id : v \in users }, a \in AccessTokens :
          BeginSaveUserToken(p, u, a)
    \/ \E p \in Requests : CommitSaveUserToken(p)
    \/ \E p \in Requests : AbortRequest(p)

SpecTokenRace == Init /\ [][NextTokenRace]_vars

\* ------------------------------------------------------------------------
\* Organizations and memberships (OrganizationRepository,
\* UserOrganizationRepository, OrganizationService)
\* ------------------------------------------------------------------------

\* The row Organization(**org_data.model_dump()) inserts.  Of the claim
\* columns the model keeps is_active, the one the update path writes too.
NewOrganization(id, org_data) ==
    [id |-> id, esia_oid |-> org_data.esia_oid, is_active |-> org_data.is_active]

\* Whether OrganizationRepository.get_by_esia_oid finds a row, and the row.
OidTaken(rows, esia_oid) == \E o \in rows : o.esia_oid = esia_oid
OrgGetByEsiaOid(rows, esia_oid) == CHOOSE o \in rows : o.esia_oid = esia_oid

\* The UNIQUE constraint on organizations.esia_oid.
ViolatesUniqueEsiaOid(rows, esia_oid) == \E o \in rows : o.esia_oid = esia_oid

\* OrganizationRepository.create: add + commit.
OrgRepoCreate(rows, id, org_data) ==
    IF ViolatesUniqueEsiaOid(rows, org_data.esia_oid)
    THEN [rows |-> rows, ret |-> "IntegrityError", id |-> Null]
    ELSE [rows |-> rows \cup {NewOrganization(id, org_data)}, ret |-> "row", id |-> id]

\* Mutant of OrgRepoUpdate: the patch is stored as a new row (a new id)
\* that replaces the loaded one.
OrgRepoUpdateReinserts(rows, org_id, org_data) ==
    IF ~\E o \in rows : o.id = org_id
    THEN [rows |-> rows, ret |-> "None", id |-> Null]
    ELSE LET db_org == CHOOSE o \in rows : o.id = org_id IN
         [rows |-> (rows \ {db_org}) \cup
                   {[db_org EXCEPT !.id = org_id + NumOids,
                                   !.is_active = org_data.is_active]},
          ret |-> "row", id |-> org_id + NumOids]

\* OrganizationRepository.update: setattr for every field of the patch
\* (is_liquidated is not a field of OrganizationUpdate), commit.
OrgRepoUpdate(rows, org_id, org_data) ==
    IF ~\E o \in rows : o.id = org_id
    THEN [rows |-> rows, ret |-> "None", id |-> Null]
    ELSE LET db_org == CHOOSE o \in rows : o.id = org_id IN
         [rows |-> (rows \ {db_org}) \cup {[db_org EXCEPT !.is_active = org_data.is_active]},
          ret |-> "row", id |-> org_id]

\* The row UserOrganization(user_id, organization_id, **kwargs) inserts:
\* is_active takes its default True.  is_chief stands for the four flags
\* passed as kwargs.  Of the autoincrement id the model keeps the rank of
\* the row among the rows of its (user, organization) pair.
NewUserOrganization(mrows, user_id, org_id, is_chief) ==
    [rank |-> 1 + Cardinality({ m \in mrows : /\ m.user_id = user_id
                                              /\ m.organization_id = org_id }),
     user_id |-> user_id, organization_id |-> org_id,
     is_chief |-> is_chief, is_active |-> TRUE]

\* The query of create_or_update: the rows of this user and organization.
FindUserOrganization(mrows, user_id, org_id) ==
    { m \in mrows : m.user_id = user_id /\ m.organization_id = org_id }

\* The constraints of user_organizations: both FOREIGN KEYs and the unique
\* index uk_user_organizations_user_org.
ViolatesMembershipConstraints(mrows, urows, orows, user_id, org_id) ==
    \/ ~\E u \in urows : u.id = user_id
    \/ ~\E o \in orows : o.id = org_id
    \/ \E m \in mrows : m.user_id = user_id /\ m.organization_id = org_id

\* Mutant of UserOrgCreateOrUpdate: the row found keeps its is_active.
UserOrgCreateOrUpdateKeepsInactive(mrows, urows, orows, user_id, org_id, is_chief) ==
    LET rel == FindUserOrganization(mrows, user_id, org_id) IN
    IF rel # {}
    THEN LET db_relation == CHOOSE m \in rel : \A n \in rel : m.rank <= n.rank IN
         [rows |-> (mrows \ {db_relation})
                    \cup {[db_relation EXCEPT !.is_chief = is_chief]},
          ret |-> "row"]
    ELSE IF ViolatesMembershipConstraints(mrows, urows, orows, user_id, org_id)
    THEN [rows |-> mrows, ret |-> "IntegrityError"]
    ELSE [rows |-> mrows \cup {NewUserOrganization(mrows, user_id, org_id, is_chief)},
          ret |-> "row"]

\* UserOrganizationRepository.create_or_update: the first row found is
\* updated (every flag set, is_active = True); without one a row is added.
UserOrgCreateOrUpdate(mrows, urows, orows, user_id, org_id, is_chief) ==
    LET rel == FindUserOrganization(mrows, user_id, org_id) IN
    IF rel # {}
    THEN LET db_relation == CHOOSE m \in rel : \A n \in rel : m.rank <= n.rank IN
         [rows |-> (mrows \ {db_relation})
                    \cup {[db_relation EXCEPT !.is_chief = is_chief, !.is_active = TRUE]},
          ret |-> "row"]
    ELSE IF ViolatesMembershipConstraints(mrows, urows, orows, user_id, org_id)
    THEN [rows |-> mrows, ret |-> "IntegrityError"]
    ELSE [rows |-> mrows \cup {NewUserOrganization(mrows, user_id, org_id, is_chief)},
          ret |-> "row"]

\* The organization tables and their counter, as one value.
OrgStore(orows, oid, mrows) ==
    [orgs |-> orows, nextOrgId |-> oid, memberships |-> mrows]

\* OrganizationService.create_or_update_organization_from_esia.  org_info:
\* oid (Null: absent), isLiquidated (absent reads False), active (absent
\* reads True), chief (absent reads False).  An existing organization gets
\* is_active = not isLiquidated; a new one gets is_active = active.  The
\* organization is committed before the membership is written.
\* found: what the lookup of create_or_update returned ("none", or the
\* is_active of db_relation before it is overwritten).
CreateOrUpdateOrganizationFromEsia(st, urows, org_info, user_id) ==
    IF org_info.oid = Null
    THEN [st |-> st, ret |-> "ValidationError", id |-> Null, found |-> "none"]
    ELSE
    LET o == IF OidTaken(st.orgs, org_info.oid)
             THEN OrgRepoUpdate(st.orgs, OrgGetByEsiaOid(st.orgs, org_info.oid).id,
                                [is_active |-> ~org_info.isLiquidated])
             ELSE OrgRepoCreate(st.orgs, st.nextOrgId,
                                [esia_oid |-> org_info.oid, is_active |-> org_info.active])
        oid == IF o.id = st.nextOrgId THEN st.nextOrgId + 1 ELSE st.nextOrgId
        m == UserOrgCreateOrUpdate(st.memberships, urows, o.rows, user_id, o.id,
                                   org_info.chief)
        rel == FindUserOrganization(st.memberships, user_id, o.id)
    IN
    IF o.ret # "row"
    THEN [st |-> st, ret |-> o.ret, id |-> Null, found |-> "none"]
    ELSE [st |-> OrgStore(o.rows, oid, m.rows),
          ret |-> m.ret,
          id |-> IF m.ret = "row" THEN o.id ELSE Null,
          found |-> IF rel = {} THEN "none"
                    ELSE IF \E r \in rel : r.is_active THEN "active" ELSE "inactive"]

\* A reconciliation that prunes: the memberships of the user in organizations
\* the claims list does not name are marked inactive after the loop.
RECURSIVE ProcessOrganizationsFromEsiaPruning(_, _, _, _)
ProcessOrganizationsFromEsiaPruning(st, urows, orgs_data, user_id) ==
    IF orgs_data = <<>>
    THEN [st |-> st, organizations |-> <<>>]
    ELSE LET r == CreateOrUpdateOrganizationFromEsia(st, urows, Head(orgs_data), user_id)
             rest == ProcessOrganizationsFromEsiaPruning(r.st, urows, Tail(orgs_data), user_id)
             kept == IF r.ret = "row"
                     THEN <<r.id>> \o rest.organizations
                     ELSE rest.organizations
         IN [st |-> [rest.st EXCEPT !.memberships =
                        { IF m.user_id = user_id
                             /\ ~\E i \in DOMAIN kept : kept[i] = m.organization_id
                          THEN [m EXCEPT !.is_active = FALSE] ELSE m : m \in @ }],
             organizations |-> kept]

\* A loop without the try/except around the item: the first failing item
\* ends the batch, and the organizations reconciled so far are returned.
RECURSIVE ProcessOrganizationsFromEsiaAborting(_, _, _, _)
ProcessOrganizationsFromEsiaAborting(st, urows, orgs_data, user_id) ==
    IF orgs_data = <<>>
    THEN [st |-> st, organizations |-> <<>>]
    ELSE LET r == CreateOrUpdateOrganizationFromEsia(st, urows, Head(orgs_data), user_id)
             rest == ProcessOrganizationsFromEsiaAborting(r.st, urows, Tail(orgs_data), user_id)
         IN IF r.ret = "row"
            THEN [st |-> rest.st, organizations |-> <<r.id>> \o rest.organizations]
            ELSE [st |-> r.st, organizations |-> <<>>]

\* OrganizationService.process_organizations_from_esia: the loop over
\* user_info["orgs"]; an exception of one item is logged and skipped.
\* Returns the store and the list of the ids of the reconciled organizations.
RECURSIVE ProcessOrganizationsFromEsia(_, _, _, _)
ProcessOrganizationsFromEsia(st, urows, orgs_data, user_id) ==
    IF orgs_data = <<>>
    THEN [st |-> st, organizations |-> <<>>]
    ELSE LET r == CreateOrUpdateOrganizationFromEsia(st, urows, Head(orgs_data), user_id)
             rest == ProcessOrganizationsFromEsia(r.st, urows, Tail(orgs_data), user_id)
         IN [st |-> rest.st,
             organizations |-> IF r.ret = "row"
                               THEN <<r.id>> \o rest.organizations
                               ELSE rest.organizations]

CurrentOrgStore == OrgStore(orgs, nextOrgId, memberships)

CallCreateOrUpdateOrganizationFromEsia(user_id, org_info) ==
    LET r == CreateOrUpdateOrganizationFromEsia(CurrentOrgStore, users, org_info, user_id) IN
    /\ Cardinality(r.st.memberships) <= MaxMemberships
    /\ orgs' = r.st.orgs
    /\ nextOrgId' = r.st.nextOrgId
    /\ memberships' = r.st.memberships
    /\ resp' = [op |-> "create_or_update_organization_from_esia", user_id |-> user_id,
                oid |-> org_info.oid, isLiquidated |-> org_info.isLiquidated,
                chief |-> org_info.chief, ret |-> r.ret, id |-> r.id,
                found |-> r.found]
    /\ UNCHANGED <<ledgerVars, userVars, tokenVars, now, groupVars, inflight>>

CallProcessOrganizationsFromEsia(user_id, orgs_data) ==
    LET r == ProcessOrganizationsFromEsia(CurrentOrgStore, users, orgs_data, user_id) IN
    /\ Cardinality(r.st.memberships) <= MaxMemberships
    /\ orgs' = r.st.orgs
    /\ nextOrgId' = r.st.nextOrgId
    /\ memberships' = r.st.memberships
    /\ resp' = [op |-> "process_organizations_from_esia", user_id |-> user_id,
                oids |-> [i \in DOMAIN orgs_data |-> orgs_data[i].oid],
                ret |-> "list", organizations |-> r.organizations]
    /\ UNCHANGED <<ledgerVars, userVars, tokenVars, now, groupVars, inflight>>

\* A membership row written through the ORM directly, as the tests do
\* (db_session.add(UserOrganization(...)); commit), here an inactive one.
AddUserOrganization(user_id, org_id, is_active) ==
    /\ Cardinality(memberships) < MaxMemberships
    /\ ~ViolatesMembershipConstraints(memberships, users, orgs, user_id, org_id)
    /\ memberships' = memberships \cup
          {[NewUserOrganization(memberships, user_id, org_id, FALSE)
               EXCEPT !.is_active = is_active]}
    /\ resp' = [op |-> "add_user_organization", user_id |-> user_id, ret |-> "row"]
    /\ UNCHANGED <<orgs, nextOrgId, ledgerVars, userVars, tokenVars, now, groupVars, inflight>>

\* The claim sets the model reconciles: with or without an oid, liquidated
\* or not, of a chief; the key "active" is absent (reads True).
OrgInfos ==
    [oid : {Null} \cup Oids, isLiquidated : BOOLEAN, active : {TRUE}, chief : {TRUE}]

\* The claim lists of the batch: up to MaxOrgs items, with or without an
\* oid, of organizations that are not liquidated; each oid is one already
\* stored, named earlier in the list, or the next one.
OrgListsUpTo(len) ==
    { l \in UNION { [1..n -> [oid : {Null} \cup Oids, isLiquidated : {FALSE},
                              active : {TRUE}, chief : {TRUE}]] : n \in 0..len } :
        \A i \in DOMAIN l :
            l[i].oid # Null =>
                l[i].oid \in Named(StoredOids \cup { l[j].oid : j \in 1..(i - 1) }, Oids) }

OrgLists == OrgListsUpTo(MaxOrgs)

NextOrg ==
    \/ \E sub \in Named(StoredUids, Uids) : CallCreateOrUpdateUserFromEsia(sub, Null, Null)
    \/ \E u \in UserIds, info \in OrgInfos :
          /\ info.oid # Null => info.oid \in Named(StoredOids, Oids)
          /\ CallCreateOrUpdateOrganizationFromEsia(u, info)
    \/ \E u \in UserIds, l \in OrgLists : CallProcessOrganizationsFromEsia(u, l)
    \/ \E u \in UserIds, o \in OrgIds : AddUserOrganization(u, o, FALSE)

SpecOrg == Init /\ [][NextOrg]_vars

\* The batch on its own, with longer claim lists: users register, and each
\* reconciles lists of up to MaxBatch organizations.
NextBatch ==
    \/ \E sub \in Named(StoredUids, Uids) : CallCreateOrUpdateUserFromEsia(sub, Null, Null)
    \/ \E u \in UserIds, l \in OrgListsUpTo(MaxBatch) : CallProcessOrganizationsFromEsia(u, l)

SpecBatch == Init /\ [][NextBatch]_vars

\* ------------------------------------------------------------------------
\* Access groups (OrganizationGroupRepository, process_groups_from_esia)
\* ------------------------------------------------------------------------

\* A group URL is a sequence of pieces; the piece Sep stands for the
\* substring "/grps/", and no other piece contains it.
Sep == 0

\* The URLs of the claims: two groups, a URL without "/grps/" and one that
\* holds it twice; three of them name the same group.
GroupUrls == { <<1, Sep, 1>>, <<1, Sep, 2>>, <<1>>, <<1, Sep, 2, Sep, 1>> }

\* group_url.split("/grps/")[-1]: what follows the last "/grps/", the whole
\* URL when it holds none.
LastSep(url) ==
    LET at == { i \in DOMAIN url : url[i] = Sep } IN
    IF at = {} THEN 0 ELSE CHOOSE i \in at : \A j \in at : j <= i

GroupIdOf(url) == SubSeq(url, LastSep(url) + 1, Len(url))

\* The row OrganizationGroup(**group_data.model_dump()) inserts, as
\* process_groups_from_esia fills it.  rank stands for the primary key: it
\* numbers the rows of one (organization_id, group_id) pair in the order of
\* their insertion.
NewOrganizationGroup(rows, org_id, group_url) ==
    [rank |-> Cardinality({ g \in rows : /\ g.organization_id = org_id
                                         /\ g.group_id = GroupIdOf(group_url) }) + 1,
     organization_id |-> org_id, group_id |-> GroupIdOf(group_url),
     esia_url |-> group_url, is_system |-> TRUE]

\* OrganizationGroupRepository.get_by_group_id: whether a row exists.
GroupTaken(rows, org_id, group_id) ==
    \E g \in rows : g.organization_id = org_id /\ g.group_id = group_id

\* The unique index uk_organization_groups_org_group.
ViolatesUniqueOrgGroup(rows, org_id, group_id) ==
    \E g \in rows : g.organization_id = org_id /\ g.group_id = group_id

\* OrganizationGroupRepository.create: add + commit.
GroupRepoCreate(rows, org_id, group_url) ==
    IF ViolatesUniqueOrgGroup(rows, org_id, GroupIdOf(group_url))
    THEN [rows |-> rows, ret |-> "IntegrityError"]
    ELSE [rows |-> rows \cup {NewOrganizationGroup(rows, org_id, group_url)},
          ret |-> "row"]

\* Mutant of ProcessGroupUrl: an existing group takes the URL of the claims.
ProcessGroupUrlUpserting(rows, org_id, group_url) ==
    IF GroupTaken(rows, org_id, GroupIdOf(group_url))
    THEN { IF g.organization_id = org_id /\ g.group_id = GroupIdOf(group_url)
           THEN [g EXCEPT !.esia_url = group_url] ELSE g : g \in rows }
    ELSE GroupRepoCreate(rows, org_id, group_url).rows

\* One pass of the loop of process_groups_from_esia: look the group up and
\* create it when the lookup finds nothing; an exception skips the URL.
ProcessGroupUrl(rows, org_id, group_url) ==
    IF GroupTaken(rows, org_id, GroupIdOf(group_url))
    THEN rows
    ELSE GroupRepoCreate(rows, org_id, group_url).rows

RECURSIVE ProcessGroupUrls(_, _, _)
ProcessGroupUrls(rows, org_id, elements) ==
    IF elements = <<>> THEN rows
    ELSE ProcessGroupUrls(ProcessGroupUrl(rows, org_id, Head(elements)),
                          org_id, Tail(elements))

\* OrganizationService.process_groups_from_esia.  group_info: oid (Null:
\* absent), has_elements (whether "grps" holds the key "elements") and the
\* list elements.
ProcessGroupsFromEsia(orows, rows, group_info) ==
    IF group_info.oid = Null THEN rows
    ELSE IF ~OidTaken(orows, group_info.oid) THEN rows
    ELSE IF ~group_info.has_elements THEN rows
    ELSE ProcessGroupUrls(rows, OrgGetByEsiaOid(orows, group_info.oid).id,
                          group_info.elements)

CallProcessGroupsFromEsia(group_info) ==
    /\ groups' = ProcessGroupsFromEsia(orgs, groups, group_info)
    /\ nextGroupId' = nextGroupId + Cardinality(groups') - Cardinality(groups)
    /\ resp' = [op |-> "process_groups_from_esia", oid |-> group_info.oid,
                has_elements |-> group_info.has_elements,
                elements |-> group_info.elements, ret |-> "None"]
    /\ UNCHANGED <<ledgerVars, userVars, tokenVars, orgVars, now, inflight>>

\* OrganizationRepository.create called on its own: an organization is
\* stored without a membership.
CallOrgRepoCreate(esia_oid) ==
    LET r == OrgRepoCreate(orgs, nextOrgId, [esia_oid |-> esia_oid, is_active |-> TRUE]) IN
    /\ orgs' = r.rows
    /\ nextOrgId' = IF r.ret = "row" THEN nextOrgId + 1 ELSE nextOrgId
    /\ resp' = [op |-> "org_create", oid |-> esia_oid, ret |-> r.ret]
    /\ UNCHANGED <<ledgerVars, userVars, tokenVars, memberships, groupVars, now, inflight>>

\* The group claims: lists of up to MaxElements URLs.
GroupLists == UNION { [1..n -> GroupUrls] : n \in 0..MaxElements }

GroupInfos ==
    { [oid |-> o, has_elements |-> h, elements |-> l] :
         o \in {Null} \cup Oids, h \in BOOLEAN, l \in GroupLists }

\* Organizations are stored in the order of their oids; a group ingestion
\* names no oid, a stored one or the next one; without the key "elements"
\* the list is empty, and without a stored organization it holds at most
\* one URL.
NextGroup ==
    \/ \E o \in Named(StoredOids, Oids) : CallOrgRepoCreate(o)
    \/ \E info \in GroupInfos :
          /\ info.oid # Null => info.oid \in StoredOids \cup Named(StoredOids, Oids)
          /\ ~info.has_elements => info.elements = <<>>
          /\ info.oid \notin StoredOids => Len(info.elements) <= 1
          /\ CallProcessGroupsFromEsia(info)

SpecGroup == Init /\ [][NextGroup]_vars

\* ------------------------------------------------------------------------
\* The provider client (ESIAService) and the provider's answers
\* ------------------------------------------------------------------------

\* HTTP status codes the provider answers with: 200 and an error status.
StatusCodes == {200, 400}

\* The provider's answer to POST /auth/token: a response, or no response at
\* all (httpx.RequestError).
TokenAnswers ==
    [kind : {"response"}, status_code : StatusCodes, access_token : AccessTokens]
    \cup {[kind |-> "RequestError", status_code |-> Null, access_token |-> Null]}

\* The provider's answer to POST /auth/userinfo; the body names the subject.
UserAnswers ==
    [kind : {"response"}, status_code : StatusCodes, sub : Uids]
    \cup {[kind |-> "RequestError", status_code |-> Null, sub |-> Null]}

\* The fields of the TokenRequest schema.
TokenRequestFields == {"grant_type", "redirect_uri", "code", "refresh_token"}

\* The attributes a request object has: those of the schema for a
\* TokenRequest (extra keyword arguments are ignored by pydantic), none of
\* its keys for a dict.
Attributes(request) ==
    IF request.type = "TokenRequest" THEN TokenRequestFields ELSE {}

\* What a call of the client yields: what it returned or raised, the
\* requests it sent to the provider, the keys of the exception's details,
\* and the data returned.
ClientResult(ret, sent, details, data) ==
    [ret |-> ret, sent |-> sent, details |-> details, data |-> data]

\* ESIAService.exchange_code_for_token.  The first statement logs
\* request.client_id, outside the try.  Inside it, the ESIAServiceError
\* raised for a status other than 200 is caught by "except Exception" and
\* raised again as the "unexpected error", whose details hold only the text.
ExchangeCodeForToken(request, answer) ==
    IF "client_id" \notin Attributes(request)
    THEN ClientResult("AttributeError", <<>>, {}, Null)
    ELSE IF answer.kind = "RequestError"
    THEN ClientResult("ExternalServiceError", <<"token">>, {"error"}, Null)
    ELSE IF answer.status_code # 200
    THEN ClientResult("ESIAServiceError", <<"token">>, {"error"}, Null)
    ELSE ClientResult("token_data", <<"token">>, {}, answer.access_token)

\* ESIAService.get_user_info.  closed: the http client was closed by
\* __aexit__ before the call; httpx then raises RuntimeError, which "except
\* Exception" turns into ESIAServiceError, and nothing is sent.
GetUserInfo(access_token, answer, closed) ==
    IF closed
    THEN ClientResult("ESIAServiceError", <<>>, {"error"}, Null)
    ELSE IF answer.kind = "RequestError"
    THEN ClientResult("ExternalServiceError", <<"userinfo">>, {"error"}, Null)
    ELSE IF answer.status_code # 200
    THEN ClientResult("ESIAServiceError", <<"userinfo">>, {"error"}, Null)
    ELSE ClientResult("user_data", <<"userinfo">>, {},
                      [sub |-> answer.sub, info |-> [uid |-> Null, firstName |-> Null]])

\* ------------------------------------------------------------------------
\* Settings and the scope validator (Settings, OAuth2Service)
\* ------------------------------------------------------------------------

\* The fields the Settings class defines; reading any other attribute of
\* the settings object raises AttributeError.
SettingsFields ==
    {"db_host", "db_port", "db_user", "db_password", "db_name",
     "esia_demo_url", "esia_client_id", "esia_client_secret", "esia_redirect_uri",
     "secret_key", "debug", "log_level", "api_v1_prefix", "project_name", "version"}

\* Scope tokens: one of the allow-list and one outside it.
ScopeTokens == {"openid", "bogus"}

\* The allow-list, for a configuration that defines it.
AllowedScopes == {"openid"}

\* A scope string, as the list of its tokens (scopes.split()).
Scopes == UNION { [1..n -> ScopeTokens] : n \in 0..MaxScopeTokens }

\* The default of the scope parameter of GET /auth/authorize.
DefaultScope == <<"openid">>

NotAllowed(scope) == scope \notin AllowedScopes

\* The tokens of a scope string that are outside the allow-list, in order.
InvalidScopes(scope_list) == SelectSeq(scope_list, NotAllowed)

\* OAuth2Service(): __init__ reads settings.esia_base_url.
OAuth2ServiceInit ==
    IF "esia_base_url" \notin SettingsFields THEN "AttributeError" ELSE "service"

\* OAuth2Service.validate_scopes: the comprehension reads
\* settings.allowed_scopes once per token of the list.
ValidateScopes(scope_list) ==
    IF scope_list = <<>>
    THEN [ret |-> "list", invalid |-> <<>>]
    ELSE IF "allowed_scopes" \notin SettingsFields
    THEN [ret |-> "AttributeError", invalid |-> <<>>]
    ELSE IF InvalidScopes(scope_list) # <<>>
    THEN [ret |-> "ValidationError", invalid |-> InvalidScopes(scope_list)]
    ELSE [ret |-> "list", invalid |-> <<>>]

\* OAuth2Service.build_authorization_url, on a service that was constructed:
\* the scopes are validated first, then the URL is composed.
BuildAuthorizationUrl(scope_list) ==
    IF ValidateScopes(scope_list).ret # "list"
    THEN ValidateScopes(scope_list)
    ELSE [ret |-> "authorization_url", invalid |-> <<>>]

\* ------------------------------------------------------------------------
\* HTTP handlers: each request runs on its own Session (get_db), closed
\* when the request ends
\* ------------------------------------------------------------------------

\* GET /auth/authorize.  state_in / uri_in = Null: parameter not supplied;
\* generated: the uuid4 drawn when no state is supplied; wellformed: whether
\* provider, response_type and redirect_uri pass the AuthorizeRequest schema;
\* settings_redirect_uri: settings.esia_redirect_uri as the request reads it
\* (Null when not configured); scope: the scope parameter, which the handler
\* stores and never inspects.  resp.invalid: the scope tokens the answer names.
Authorize(state_in, uri_in, generated, wellformed, settings_redirect_uri, scope) ==
    LET state == IF state_in = Null THEN generated ELSE state_in
        uri == IF uri_in = Null THEN settings_redirect_uri ELSE uri_in
        r == AuthRequestCreate(ledger, FreshSession, nextAuthId, state, uri)
        Answer(status, ret) ==
            Outcome("authorize", state, Null, Null, status, ret, Null, Null)
            @@ [scope |-> scope, invalid |-> <<>>]
    IN
    /\ state_in = Null => ~StateTaken(ledger, generated)
    /\ IF uri = Null
       THEN \* ValidationError -> 422
            /\ resp' = Answer(422, "ValidationError")
            /\ UNCHANGED <<ledger, nextAuthId>>
       ELSE IF ~wellformed
       THEN \* pydantic validation error -> except Exception -> 400
            /\ resp' = Answer(400, "SchemaError")
            /\ UNCHANGED <<ledger, nextAuthId>>
       ELSE IF r.ret # "row"
       THEN \* IntegrityError -> except Exception -> 400
            /\ resp' = Answer(400, r.ret)
            /\ UNCHANGED <<ledger, nextAuthId>>
       ELSE \* row committed; build_authorization_url reads request.client_id,
            \* which AuthorizeRequest does not have: AttributeError -> 400
            /\ ledger' = r.rows
            /\ nextAuthId' = nextAuthId + 1
            /\ resp' = Answer(400, "AttributeError")
    /\ UNCHANGED <<session, storeVars>>

\* GET /login: OAuth2Service() reads settings.esia_base_url, which Settings
\* does not define: AttributeError -> except Exception -> 400, before any row
\* is created.  Every exception of the handler, a ValidationError of the
\* scopes included, is answered by the same 400 and the same fixed message.
WebLogin(scopes) ==
    LET service == OAuth2ServiceInit
        auth_data == BuildAuthorizationUrl(scopes)
        state == CHOOSE s \in States : ~StateTaken(ledger, s)
        r == AuthRequestCreate(ledger, FreshSession, nextAuthId, state,
                               CHOOSE u \in Uris : TRUE)
        Answer(status, ret) ==
            Outcome("web_login", Null, Null, Null, status, ret, Null, Null)
            @@ [scope |-> scopes, invalid |-> <<>>]
    IN
    /\ IF service # "service"
       THEN /\ resp' = Answer(400, service)
            /\ UNCHANGED <<ledger, nextAuthId>>
       ELSE IF auth_data.ret # "authorization_url"
       THEN /\ resp' = Answer(400, auth_data.ret)
            /\ UNCHANGED <<ledger, nextAuthId>>
       ELSE /\ \E s \in States : ~StateTaken(ledger, s)
            /\ ledger' = r.rows
            /\ nextAuthId' = nextAuthId + 1
            /\ resp' = Answer(307, r.ret)
    /\ UNCHANGED <<session, storeVars>>

\* OAuth2Service().build_authorization_url(scopes), called directly.
CallBuildAuthorizationUrl(scopes) ==
    LET service == OAuth2ServiceInit
        auth_data == BuildAuthorizationUrl(scopes)
    IN
    /\ resp' = Outcome("build_authorization_url", Null, Null, Null, 0,
                        IF service # "service" THEN service ELSE auth_data.ret,
                        Null, Null)
                @@ [scope |-> scopes,
                    invalid |-> IF service # "service" THEN <<>> ELSE auth_data.invalid]
    /\ UNCHANGED <<ledgerVars, storeVars>>

\* GET /api/v1/auth/callback.
AuthCallback(state, code, error) ==
    LET r == IF error # Null
             THEN UpdateWithError(ledger, FreshSession, state, error)
             ELSE UpdateWithCode(ledger, FreshSession, state, code)
        auth_request == GetByState(ledger, state)
    IN
    /\ IF ~StateTaken(ledger, state)
       THEN resp' = Outcome("auth_callback", state, code, error, 404, "None", Null, Null)
       ELSE IF error = Null /\ code = Null
       THEN resp' = Outcome("auth_callback", state, code, error, 400, "row", Null, Null)
       ELSE IF r.ret = "NameError"
       THEN \* except Exception -> 400
            resp' = Outcome("auth_callback", state, code, error, 400, r.ret, Null, Null)
       ELSE \* RedirectResponse to the stored redirect_uri, with the error or the code
            resp' = Outcome("auth_callback", state, code, error, 307, r.ret,
                            auth_request.redirect_uri,
                            IF error # Null THEN Null ELSE code)
    \* the request's session is closed without a commit: r.sess is dropped
    /\ ledger' = IF StateTaken(ledger, state) /\ (error # Null \/ code # Null)
                 THEN r.rows ELSE ledger
    /\ UNCHANGED <<nextAuthId, session, storeVars>>

\* GET /callback (HTML): every answer is a rendered page (status 200).  The
\* handler looks the state up, records the error or the code on the ledger
\* row, and for a code exchanges it for a token, fetches the user data (after
\* the "async with" block has closed the client), reconciles the user and
\* saves the token.  update_with_code / update_with_error raise NameError,
\* which the outer "except Exception" renders as an error page; an exception
\* of the later calls is rendered by the inner one.  resp.calls lists the
\* calls the handler made, in order, resp.sent the provider requests sent.
WebCallback(state, code, error, token_answer, user_answer) ==
    LET auth_request == GetByState(ledger, state)
        upd == IF error # Null
               THEN UpdateWithError(ledger, FreshSession, state, error)
               ELSE UpdateWithCode(ledger, FreshSession, state, code)
        tok == ExchangeCodeForToken([type |-> "dict",
                                     redirect_uri |-> auth_request.redirect_uri,
                                     code |-> code], token_answer)
        inf == GetUserInfo(tok.data, user_answer, TRUE)
        usr == CreateOrUpdateUserFromEsia(users, nextUserId, inf.data, now)
        sav == SaveUserToken(tokens, usr.rows, nextTokenId, usr.id, tok.data)
        Page(ret, calls, sent, rows, urows, trows) ==
            [ret |-> ret, calls |-> calls, sent |-> sent,
             ledger |-> rows, users |-> urows, tokens |-> trows]
        run ==
            IF ~StateTaken(ledger, state)
            THEN Page("None", <<"get_by_state">>, <<>>, ledger, users, tokens)
            ELSE IF error # Null
            THEN Page(upd.ret, <<"get_by_state", "update_with_error">>, <<>>,
                      upd.rows, users, tokens)
            ELSE IF code = Null
            THEN Page("row", <<"get_by_state">>, <<>>, ledger, users, tokens)
            ELSE IF upd.ret # "row"
            THEN Page(upd.ret, <<"get_by_state", "update_with_code">>, <<>>,
                      upd.rows, users, tokens)
            ELSE IF tok.ret # "token_data"
            THEN Page(tok.ret,
                      <<"get_by_state", "update_with_code", "exchange_code_for_token">>,
                      tok.sent, upd.rows, users, tokens)
            ELSE IF inf.ret # "user_data"
            THEN Page(inf.ret,
                      <<"get_by_state", "update_with_code", "exchange_code_for_token",
                        "get_user_info">>,
                      tok.sent \o inf.sent, upd.rows, users, tokens)
            ELSE IF usr.ret # "row"
            THEN Page(usr.ret,
                      <<"get_by_state", "update_with_code", "exchange_code_for_token",
                        "get_user_info", "create_or_update_user_from_esia">>,
                      tok.sent \o inf.sent, upd.rows, usr.rows, tokens)
            ELSE Page(sav.ret,
                      <<"get_by_state", "update_with_code", "exchange_code_for_token",
                        "get_user_info", "create_or_update_user_from_esia",
                        "save_user_token">>,
                      tok.sent \o inf.sent, upd.rows, usr.rows, sav.rows)
    IN
    /\ resp' = Outcome("web_callback", state, code, error, 200, run.ret, Null, Null)
                @@ [calls |-> run.calls, sent |-> run.sent,
                    token_answer |-> token_answer, user_answer |-> user_answer]
    /\ ledger' = run.ledger
    /\ users' = run.users
    /\ nextUserId' = IF \E u \in run.users : u.id = nextUserId
                      THEN nextUserId + 1 ELSE nextUserId
    /\ tokens' = run.tokens
    /\ nextTokenId' = IF \E k \in run.tokens : k.id = nextTokenId
                       THEN nextTokenId + 1 ELSE nextTokenId
    /\ UNCHANGED <<nextAuthId, session, orgVars, now, groupVars, inflight>>

NextLedger ==
    \/ \E s \in Named(StoredStates, States), u \in Uris : CallCreate(s, u)
    \/ \E s \in States, c \in Codes : CallUpdateWithCode(s, c)
    \/ \E s \in States, e \in Errors : CallUpdateWithError(s, e)
    \/ \E s \in States : CallGetByState(s)
    \/ CloseSession
    \/ \E s \in {Null} \cup Named(StoredStates, States), u \in {Null} \cup Uris,
          w \in BOOLEAN :
          \* a uuid is drawn, and the configuration read, only for a missing parameter
          \E g \in IF s = Null THEN Named(StoredStates, States) ELSE {Null},
             cfg \in IF u = Null THEN {Null} \cup Uris ELSE {Null} :
             Authorize(s, u, g, w, cfg, DefaultScope)
    \/ WebLogin(DefaultScope)
    \/ \E s \in States, c \in {Null} \cup Codes, e \in {Null} \cup Errors :
          AuthCallback(s, c, e)
    \/ \E s \in States, c \in {Null} \cup Codes, e \in {Null} \cup Errors :
          \* the ledger does not depend on what the provider would answer
          \E ta \in { a \in TokenAnswers : a.status_code = 200 },
             ua \in { a \in UserAnswers : a.status_code = 200
                                              /\ a.sub \in Named(StoredUids, Uids) } :
             WebCallback(s, c, e, ta, ua)

SpecLedger == Init /\ [][NextLedger]_vars

\* ------------------------------------------------------------------------
\* Claims about the ledger (checked under SpecLedger)
\* ------------------------------------------------------------------------

\* The ledger row of a state (for states that have one).
RowOf(state) == CHOOSE r \in ledger : r.state = state

\* Whether the operation that led to this state named a state that has a row.
KnownState == \E r \in ledger : r.state = resp.state

\* C2: no two ledger rows have the same state, and a create (repository
\* create, GET /auth/authorize, GET /login) whose state already has a row
\* fails, adds no row and leaves the existing rows as they are.
C2_StateUnique ==
    [][ /\ \A r1, r2 \in ledger' : r1.state = r2.state => r1 = r2
        /\ ( /\ resp'.op \in {"create", "authorize", "web_login"}
             /\ \E r \in ledger : r.state = resp'.state )
           => (ledger' = ledger /\ resp'.ret # "row" /\ resp'.status # 200) ]_vars

\* C2 witness: a create for a state that already had a row was refused while
\* another row exists.
C2_Witness ==
    /\ resp.op = "create"
    /\ resp.ret = "IntegrityError"
    /\ Cardinality(ledger) = 2

\* C3: a completed row is never set back to incomplete and no row is ever
\* removed (each row keeps its id and state), whatever operation runs.
C3_CompletionIrreversible ==
    [][ \A r \in ledger : \E q \in ledger' :
            /\ q.id = r.id
            /\ q.state = r.state
            /\ (r.is_completed => q.is_completed) ]_vars

\* C3 witness: an update or a callback has just run for a state whose row is
\* completed.
C3_Witness ==
    /\ resp.op \in {"update_with_code", "update_with_error", "auth_callback", "web_callback"}
    /\ KnownState
    /\ RowOf(resp.state).is_completed

Pending(r) == ~r.is_completed /\ r.authorization_code = Null /\ r.error = Null
CompletedSuccess(r) == r.is_completed /\ r.authorization_code # Null /\ r.error = Null
CompletedError(r) == r.is_completed /\ r.error # Null /\ r.authorization_code = Null

\* C4: every ledger row is PENDING, COMPLETED_SUCCESS or COMPLETED_ERROR.
C4_OneOfThreeStates ==
    \A r \in ledger : Pending(r) \/ CompletedSuccess(r) \/ CompletedError(r)

\* C5: a created row is incomplete; after update_with_code on an existing
\* state the stored row is completed with that code and completed_at set;
\* after update_with_error it is completed with that error and completed_at
\* set; the API callback with a known state and a code redirects to the
\* stored redirect_uri with that code.
C5_Lifecycle ==
    /\ (resp.op = "create" /\ resp.ret = "row") => ~RowOf(resp.state).is_completed
    /\ (resp.op = "update_with_code" /\ KnownState) =>
            /\ RowOf(resp.state).is_completed
            /\ RowOf(resp.state).authorization_code \in Codes
            /\ RowOf(resp.state).completed_at # Null
    /\ (resp.op = "update_with_error" /\ KnownState) =>
            /\ RowOf(resp.state).is_completed
            /\ RowOf(resp.state).error \in Errors
            /\ RowOf(resp.state).completed_at # Null
    /\ (resp.op = "auth_callback" /\ KnownState /\ resp.given = "code") =>
            /\ resp.status = 307
            /\ resp.loc_uri = RowOf(resp.state).redirect_uri
            /\ resp.loc_code \in Codes

\* C6: for a state without a ledger row, get_by_state and both updates
\* return None and GET /auth/callback answers 404; no row is created, no row
\* is modified and nothing is staged in the session.
C6_UnknownState ==
    [][ ( /\ resp'.op \in {"get_by_state", "update_with_code", "update_with_error",
                           "auth_callback"}
          /\ ~\E r \in ledger : r.state = resp'.state )
        => ( /\ ledger' = ledger
             /\ session' = session
             /\ resp'.ret = "None"
             /\ (resp'.op = "auth_callback" => resp'.status = 404) ) ]_vars

\* C6 witness: the callback answered 404 for an unknown state while the
\* ledger holds another row.
C6_Witness ==
    /\ resp.op = "auth_callback"
    /\ resp.status = 404
    /\ ~KnownState
    /\ ledger # {}

\* ------------------------------------------------------------------------
\* Claims about tokens (SpecToken) and users (SpecUser)
\* ------------------------------------------------------------------------

ActiveTokens(rows, user_id) == { t \in rows : t.user_id = user_id /\ t.is_active }

\* C1: every user has at most one active token, and a successful token
\* creation leaves exactly the new row active for that user: every token the
\* user had before is inactive afterwards.
C1_SingleActiveToken ==
    [][ /\ \A u \in UserIds : Cardinality(ActiveTokens(tokens', u)) <= 1
        /\ (resp'.op = "save_user_token" /\ resp'.ret = "row") =>
              /\ \A t \in ActiveTokens(tokens', resp'.user_id) : t.id = resp'.id
              /\ \E t \in ActiveTokens(tokens', resp'.user_id) : t.id = resp'.id
              /\ \A t \in tokens : t.user_id = resp'.user_id =>
                    \E q \in tokens' : q.id = t.id /\ ~q.is_active ]_vars

\* C1 witness: a second token was just created for a user; the first one is
\* stored inactive and the second one active.
C1_Witness ==
    /\ resp.op = "save_user_token"
    /\ resp.ret = "row"
    /\ \E t1, t2 \in tokens :
          /\ t1.user_id = resp.user_id /\ t2.user_id = resp.user_id
          /\ t1.id < t2.id /\ t2.id = resp.id
          /\ ~t1.is_active /\ t2.is_active

\* C7: at most one User row per esia_uid, and the row of an esia_uid keeps
\* its internal id and its created_at through every reconciliation.
C7_OneUserPerUid ==
    [][ /\ \A u1, u2 \in users' : u1.esia_uid = u2.esia_uid => u1 = u2
        /\ \A u \in users : \E q \in users' :
              q.esia_uid = u.esia_uid /\ q.id = u.id /\ q.created_at = u.created_at ]_vars

\* C7 witness: an existing user was just reconciled again, at a later time
\* than its creation, and is still the only row.
C7_Witness ==
    /\ resp.op = "create_or_update_user_from_esia"
    /\ resp.ret = "row"
    /\ \E u \in users :
          /\ u.esia_uid = resp.esia_uid
          /\ u.id = resp.id
          /\ u.created_at < now
          /\ u.updated_at > u.created_at
    /\ Cardinality(users) = 1

\* ------------------------------------------------------------------------
\* Claims about organizations and memberships (checked under SpecOrg)
\* ------------------------------------------------------------------------

\* Whether the last operation was a single reconciliation / a batch.
Reconciled(r) == r.op = "create_or_update_organization_from_esia"
Processed(r) == r.op = "process_organizations_from_esia"

\* C8: no two membership rows have the same (user_id, organization_id), and
\* a reconciliation (single or batch) naming an organization for which the
\* user has an inactive membership succeeds and sets that row active with
\* the claimed flags, without adding a row for the pair.
C8_OneMembershipPerPair ==
    [][ /\ \A m1, m2 \in memberships' :
              (m1.user_id = m2.user_id /\ m1.organization_id = m2.organization_id)
                  => m1 = m2
        /\ \A m \in memberships :
              ( /\ Reconciled(resp')
                /\ resp'.user_id = m.user_id
                /\ \E o \in orgs : o.esia_oid = resp'.oid /\ o.id = m.organization_id
                /\ ~m.is_active )
              => /\ resp'.ret = "row"
                 /\ memberships' = (memberships \ {m}) \cup
                        {[m EXCEPT !.is_active = TRUE, !.is_chief = resp'.chief]}
        /\ \A m \in memberships :
              ( /\ Processed(resp')
                /\ resp'.user_id = m.user_id
                /\ \E i \in DOMAIN resp'.organizations :
                       resp'.organizations[i] = m.organization_id
                /\ ~m.is_active )
              => \A q \in memberships' :
                    (q.user_id = m.user_id /\ q.organization_id = m.organization_id)
                        <=> q = [m EXCEPT !.is_active = TRUE, !.is_chief = TRUE] ]_vars

\* C8 witness: a reconciliation found the user's membership inactive and the
\* row is active now, with the chief flag, next to another user's row.
C8_Witness ==
    /\ Reconciled(resp)
    /\ resp.found = "inactive"
    /\ resp.ret = "row"
    /\ Cardinality(memberships) = 2
    /\ \E m \in memberships :
          /\ m.user_id = resp.user_id
          /\ m.organization_id = resp.id
          /\ m.is_active
          /\ m.is_chief

\* C9: no two organization rows have the same esia_oid, every organization
\* row keeps its id and esia_oid through every operation, and a successful
\* reconciliation of a stored esia_oid returns the id that row already had.
C9_OneOrganizationPerOid ==
    [][ /\ \A o1, o2 \in orgs' : o1.esia_oid = o2.esia_oid => o1 = o2
        /\ \A o \in orgs : \E q \in orgs' : q.id = o.id /\ q.esia_oid = o.esia_oid
        /\ \A o \in orgs :
              (Reconciled(resp') /\ resp'.oid = o.esia_oid /\ resp'.ret = "row")
                  => resp'.id = o.id ]_vars

\* C9 witness: a user without a membership reconciled an organization that
\* another user had reconciled before, and got the one stored row.
C9_Witness ==
    /\ Reconciled(resp)
    /\ resp.ret = "row"
    /\ resp.found = "none"
    /\ Cardinality(orgs) = 1
    /\ \E o \in orgs : o.id = resp.id /\ o.esia_oid = resp.oid
    /\ \E m \in memberships :
          /\ m.user_id # resp.user_id
          /\ m.organization_id = resp.id
          /\ m.is_active

\* C10: after a successful reconciliation the stored organization has
\* is_active = not isLiquidated of the claims, whether the row was created
\* or updated.
C10_LiquidatedInactive ==
    (Reconciled(resp) /\ resp.ret = "row")
        => \A o \in orgs : o.id = resp.id => (o.is_active = ~resp.isLiquidated)

\* ------------------------------------------------------------------------
\* Claims about the batch (checked under SpecBatch)
\* ------------------------------------------------------------------------

\* An item of the claims list that names an organization.
HasOid(oid) == oid # Null

NextFlow ==
    \/ \E s \in {Null} \cup Named(StoredStates, States), u \in Uris :
          \E g \in IF s = Null THEN Named(StoredStates, States) ELSE {Null} :
             Authorize(s, u, g, TRUE, Null, DefaultScope)
    \/ WebLogin(DefaultScope)
    \/ \E s \in States, c \in {Null} \cup Codes, e \in {Null} \cup Errors,
          ta \in TokenAnswers, ua \in UserAnswers :
          WebCallback(s, c, e, ta, ua)

SpecFlow == Init /\ [][NextFlow]_vars

\* The handler made the call named name.
Called(r, name) == \E i \in DOMAIN r.calls : r.calls[i] = name

\* The handler made the call named a before the call named b.
CalledBefore(r, a, b) ==
    \E i, j \in DOMAIN r.calls : i < j /\ r.calls[i] = a /\ r.calls[j] = b

C13_FlowCompletes ==
    [][ ( /\ resp'.op = "web_callback"
          /\ resp'.given = "code"
          /\ StateTaken(ledger, resp'.state)
          /\ resp'.token_answer.status_code = 200
          /\ resp'.user_answer.status_code = 200 )
        => /\ \E r \in ledger' :
                 r.state = resp'.state /\ r.is_completed /\ r.authorization_code \in Codes
           /\ \E u \in users' :
                 /\ u.esia_uid = resp'.user_answer.sub
                 /\ \E k \in tokens' : k.user_id = u.id /\ k.is_active ]_vars

\* ------------------------------------------------------------------------
\* Starting an authorization (checked under SpecStart)
\* ------------------------------------------------------------------------

\* The three entry points that start an authorization, with any scope string.
NextStart ==
    \/ \E s \in {Null} \cup Named(StoredStates, States), u \in {Null} \cup Uris,
          w \in BOOLEAN, sc \in Scopes :
          \E g \in IF s = Null THEN Named(StoredStates, States) ELSE {Null},
             cfg \in IF u = Null THEN {Null} \cup Uris ELSE {Null} :
             Authorize(s, u, g, w, cfg, sc)
    \/ \E sc \in Scopes : WebLogin(sc)
    \/ \E sc \in Scopes : CallBuildAuthorizationUrl(sc)

SpecStart == Init /\ [][NextStart]_vars

\* C14: GET /auth/authorize, for a request that passes validation and whose
\* state is free, answers successfully with the state, and the ledger then
\* holds a PENDING row with that state.
C14_AuthorizeAnswersRow ==
    [][ ( /\ resp'.op = "authorize"
          /\ resp'.ret \notin {"ValidationError", "SchemaError", "IntegrityError"} )
        => /\ resp'.status = 200
           /\ \E r \in ledger' : r.state = resp'.state /\ Pending(r) ]_vars

\* C15: each entry point that starts an authorization answers a scope
\* string with a token outside the allow-list by a validation error that
\* names exactly the offending tokens, and creates no ledger row.
C15_InvalidScopeRejected ==
    [][ ( /\ resp'.op \in {"authorize", "web_login", "build_authorization_url"}
          /\ InvalidScopes(resp'.scope) # <<>> )
        => /\ resp'.ret = "ValidationError"
           /\ resp'.invalid = InvalidScopes(resp'.scope)
           /\ ledger' = ledger ]_vars

\* ------------------------------------------------------------------------
\* The token and userinfo endpoints of the API (checked under SpecApi)
\* ------------------------------------------------------------------------

\* Values of the grant_type form field: the two of the GrantType enum and
\* one that the TokenRequest schema rejects.
GrantTypes == {"authorization_code", "refresh_token", "password"}
RefreshTokens == {1}

\* TokenRequest(**form): the object the schema builds from the form fields;
\* client_id and client_secret are not fields of the schema and are dropped.
TokenRequest(grant_type, redirect_uri, code, refresh_token) ==
    [type |-> "TokenRequest", grant_type |-> grant_type, redirect_uri |-> redirect_uri,
     code |-> code, refresh_token |-> refresh_token]

\* The TokenRequest objects a caller can build.
TokenRequests ==
    { TokenRequest(g, u, c, k) :
        g \in {"authorization_code", "refresh_token"}, u \in Uris,
        c \in {Null} \cup Codes, k \in {Null} \cup RefreshTokens }

\* ESIAService.exchange_code_for_token, called directly.
CallExchangeCodeForToken(request, answer) ==
    LET r == ExchangeCodeForToken(request, answer) IN
    /\ resp' = [op |-> "exchange_code_for_token", request |-> request,
                answer |-> answer, ret |-> r.ret, sent |-> r.sent,
                details |-> r.details]
    /\ UNCHANGED <<ledgerVars, storeVars>>

\* POST /auth/token.  The schema validates grant_type only: a missing code
\* or refresh_token passes it.  A pydantic error and the AttributeError of
\* exchange_code_for_token fall to "except Exception" (400); an error of the
\* gateway's own hierarchy is answered with its status code (502).
GetToken(grant_type, code, refresh_token, answer) ==
    LET token_request == TokenRequest(grant_type, CHOOSE u \in Uris : TRUE,
                                      code, refresh_token)
        r == ExchangeCodeForToken(token_request, answer)
        Answer(status, ret, sent) ==
            [op |-> "get_token", grant_type |-> grant_type, code |-> code,
             refresh_token |-> refresh_token, answer |-> answer,
             status |-> status, ret |-> ret, sent |-> sent]
    IN
    /\ resp' = IF grant_type \notin {"authorization_code", "refresh_token"}
               THEN Answer(400, "SchemaError", <<>>)
               ELSE IF r.ret \in {"ExternalServiceError", "ESIAServiceError"}
               THEN Answer(502, r.ret, r.sent)
               ELSE IF r.ret # "token_data"
               THEN Answer(400, r.ret, r.sent)
               ELSE Answer(200, r.ret, r.sent)
    /\ UNCHANGED <<ledgerVars, storeVars>>

\* Authorization headers: the scheme the header starts with, and the token.
Schemes == {"Bearer", "bearer", "Basic"}
AuthorizationHeaders == [scheme : Schemes, token : AccessTokens]

\* A header that only shares the prefix test with a well-formed one.
StartsWithAnything(authorization) == TRUE

\* authorization.startswith("Bearer ")
StartsWithBearer(authorization) == authorization.scheme = "Bearer"

\* POST /auth/userinfo.  has_orgs: whether the provider's answer has an
\* "orgs" claim; orgs_data: that claim.  A header without the Bearer prefix is
\* answered 401 before the provider is asked; an error of the client is
\* answered 502; otherwise the user is reconciled, then the organizations.
AuthUserInfo(authorization, answer, has_orgs, orgs_data) ==
    LET inf == GetUserInfo(authorization.token, answer, FALSE)
        usr == CreateOrUpdateUserFromEsia(users, nextUserId, inf.data, now)
        org == IF ~has_orgs
               THEN [st |-> CurrentOrgStore, organizations |-> <<>>]
               ELSE ProcessOrganizationsFromEsia(CurrentOrgStore, usr.rows, orgs_data, usr.id)
        Answer(status, ret, sent) ==
            [op |-> "get_user_info", scheme |-> authorization.scheme,
             answer |-> answer, status |-> status, ret |-> ret, sent |-> sent]
    IN
    IF ~StartsWithBearer(authorization)
    THEN /\ resp' = Answer(401, "AuthenticationError", <<>>)
         /\ UNCHANGED <<ledgerVars, storeVars>>
    ELSE IF inf.ret # "user_data"
    THEN /\ resp' = Answer(502, inf.ret, inf.sent)
         /\ UNCHANGED <<ledgerVars, storeVars>>
    ELSE IF usr.ret # "row"
    THEN /\ resp' = Answer(400, usr.ret, inf.sent)
         /\ UNCHANGED <<ledgerVars, storeVars>>
    ELSE /\ Cardinality(org.st.memberships) <= MaxMemberships
         /\ users' = usr.rows
         /\ nextUserId' = IF usr.id = nextUserId THEN nextUserId + 1 ELSE nextUserId
         /\ orgs' = org.st.orgs
         /\ nextOrgId' = org.st.nextOrgId
         /\ memberships' = org.st.memberships
         /\ resp' = Answer(200, "user_data", inf.sent)
         /\ UNCHANGED <<ledgerVars, tokenVars, now, groupVars, inflight>>

NextApi ==
    \/ \E q \in TokenRequests, a \in TokenAnswers : CallExchangeCodeForToken(q, a)
    \/ \E g \in GrantTypes, c \in {Null} \cup Codes, k \in {Null} \cup RefreshTokens,
          a \in TokenAnswers : GetToken(g, c, k, a)
    \/ \E h \in AuthorizationHeaders,
          a \in { x \in UserAnswers : x.sub \in {Null} \cup Named(StoredUids, Uids) },
          b \in BOOLEAN :
          \E o \in IF b THEN OrgLists ELSE {<<>>} : AuthUserInfo(h, a, b, o)

SpecApi == Init /\ [][NextApi]_vars

\* C16: POST /auth/token with grant_type=authorization_code and no code, or
\* grant_type=refresh_token and no refresh_token, is answered 422 and no
\* request is sent to the provider.
C16_MissingCredentialRejected ==
    [][ ( /\ resp'.op = "get_token"
          /\ \/ resp'.grant_type = "authorization_code" /\ resp'.code = Null
             \/ resp'.grant_type = "refresh_token" /\ resp'.refresh_token = Null )
        => /\ resp'.status = 422
           /\ resp'.sent = <<>> ]_vars

\* C17: exchange_code_for_token reports a provider response with a status
\* other than success as the provider error, carrying the HTTP status and
\* the raw body, and a network failure as the distinct error of the
\* unreachable external service; neither is reported as the other.
C17_ProviderErrorsDistinguished ==
    [][ resp'.op = "exchange_code_for_token" =>
          /\ (resp'.answer.kind = "response" /\ resp'.answer.status_code # 200)
                => /\ resp'.ret = "ESIAServiceError"
                   /\ {"status_code", "response"} \subseteq resp'.details
          /\ resp'.answer.kind = "RequestError"
                => resp'.ret = "ExternalServiceError" ]_vars

\* C18: POST /auth/userinfo with an Authorization header that does not
\* start with "Bearer " is answered 401, sends no request to the provider
\* and leaves the users, organizations and memberships as they were.
C18_NoBearerNoEffect ==
    [][ (resp'.op = "get_user_info" /\ resp'.scheme # "Bearer")
        => /\ resp'.status = 401
           /\ resp'.sent = <<>>
           /\ UNCHANGED <<users, orgs, memberships>> ]_vars

\* C18 witness: a header without the prefix was answered 401 while a user
\* and an organization were stored.
C18_Witness ==
    /\ resp.op = "get_user_info"
    /\ resp.scheme # "Bearer"
    /\ resp.status = 401
    /\ users # {}
    /\ orgs # {}

\* ------------------------------------------------------------------------
\* Creating and deleting users (UserService, /users; checked under SpecAccount)
\* ------------------------------------------------------------------------

\* A create_user without the lookup: the insert meets the unique index.
CreateUserUnchecked(rows, id, user_data, t) == UserRepoCreate(rows, id, user_data, t)

\* UserService.create_user: an existing esia_uid raises ValidationError
\* ("... already exists") before anything is written.
CreateUser(rows, id, user_data, t) ==
    IF UidTaken(rows, user_data.esia_uid)
    THEN [rows |-> rows, ret |-> "ValidationError", id |-> Null]
    ELSE UserRepoCreate(rows, id, user_data, t)

\* POST /users/: an error of the gateway's hierarchy is answered with its
\* status code and its message, any other exception with 500.
PostUser(esia_uid, first_name) ==
    LET r == CreateUser(users, nextUserId,
                        [esia_uid |-> esia_uid, first_name |-> first_name], now)
    IN
    /\ nextUserId <= NumUids
    /\ users' = r.rows
    /\ nextUserId' = IF r.ret = "row" THEN nextUserId + 1 ELSE nextUserId
    /\ resp' = [op |-> "create_user", esia_uid |-> esia_uid, ret |-> r.ret,
                id |-> r.id,
                status |-> IF r.ret = "row" THEN 200
                           ELSE IF r.ret = "ValidationError" THEN 422 ELSE 500,
                detail |-> IF r.ret = "row" THEN "user"
                           ELSE IF r.ret = "ValidationError" THEN "already exists"
                           ELSE "internal error"]
    /\ UNCHANGED <<ledgerVars, tokenVars, orgVars, now, groupVars, inflight>>

\* The DELETE of a users row on a schema without cascading foreign keys:
\* the rows that refer to the user stay.
UserRepoDeleteWithoutCascade(urows, trows, mrows, user_id) ==
    IF ~\E u \in urows : u.id = user_id
    THEN [users |-> urows, tokens |-> trows, memberships |-> mrows, ret |-> FALSE]
    ELSE [users |-> { u \in urows : u.id # user_id },
          tokens |-> trows, memberships |-> mrows, ret |-> TRUE]

\* UserRepository.delete: get_by_id, db.delete, commit.  The DELETE cascades
\* to user_tokens and user_organizations (ON DELETE CASCADE).
UserRepoDelete(urows, trows, mrows, user_id) ==
    IF ~\E u \in urows : u.id = user_id
    THEN [users |-> urows, tokens |-> trows, memberships |-> mrows, ret |-> FALSE]
    ELSE [users |-> { u \in urows : u.id # user_id },
          tokens |-> { k \in trows : k.user_id # user_id },
          memberships |-> { m \in mrows : m.user_id # user_id },
          ret |-> TRUE]

\* DELETE /users/{user_id}: UserService.delete_user deactivates the user's
\* tokens (committed), then deletes the user; NotFoundError -> 404.
\* resp.cascaded: the rows the DELETE removed from the referring tables.
DeleteUser(user_id) ==
    LET r == UserRepoDelete(users, DeactivateUserTokens(tokens, user_id),
                            memberships, user_id)
    IN
    /\ users' = r.users
    /\ tokens' = r.tokens
    /\ memberships' = r.memberships
    /\ resp' = [op |-> "delete_user", user_id |-> user_id,
                ret |-> IF r.ret THEN "True" ELSE "NotFoundError",
                status |-> IF r.ret THEN 200 ELSE 404,
                cascaded |-> [tokens |-> Cardinality(tokens) - Cardinality(r.tokens),
                              memberships |-> Cardinality(memberships)
                                              - Cardinality(r.memberships)]]
    /\ UNCHANGED <<ledgerVars, nextUserId, nextTokenId, orgs, nextOrgId, now, groupVars, inflight>>

NextAccount ==
    \/ \E uid \in StoredUids \cup Named(StoredUids, Uids) : PostUser(uid, Null)
    \/ \E u \in UserIds : DeleteUser(u)
    \* a first token, and memberships, of the stored users
    \/ \E u \in users, a \in AccessTokens :
          /\ ~\E k \in tokens : k.user_id = u.id
          /\ CallSaveUserToken(u.id, a)
    \/ \E u \in users, l \in OrgLists :
          /\ \A i \in DOMAIN l : l[i].oid # Null
          /\ CallProcessOrganizationsFromEsia(u.id, l)

SpecAccount == Init /\ [][NextAccount]_vars

\* C19: create_user with an esia_uid that is stored already fails with the
\* validation error (422, "already exists") and leaves the users table as
\* it was.
C19_DuplicateUidRejected ==
    [][ (resp'.op = "create_user" /\ UidTaken(users, resp'.esia_uid))
        => /\ resp'.ret = "ValidationError"
           /\ resp'.status = 422
           /\ resp'.detail = "already exists"
           /\ users' = users ]_vars

\* C19 witness: a create_user was rejected for a stored esia_uid.
C19_Witness ==
    /\ resp.op = "create_user"
    /\ resp.status = 422
    /\ UidTaken(users, resp.esia_uid)

\* C20: after a successful delete_user(u) no token and no membership row
\* refers to u, and u is found neither by id nor by its esia_uid.
C20_DeleteLeavesNothing ==
    [][ (resp'.op = "delete_user" /\ resp'.status = 200)
        => /\ \A k \in tokens' : k.user_id # resp'.user_id
           /\ \A m \in memberships' : m.user_id # resp'.user_id
           /\ \A u \in users' : u.id # resp'.user_id
           /\ \A u \in users : u.id = resp'.user_id => ~UidTaken(users', u.esia_uid) ]_vars

\* C20 witness: a user that had tokens and memberships was deleted.
C20_Witness ==
    /\ resp.op = "delete_user"
    /\ resp.status = 200
    /\ resp.cascaded.tokens > 0
    /\ resp.cascaded.memberships > 0

\* ------------------------------------------------------------------------
\* Logout (GET /auth/logout; checked under SpecLogout)
\* ------------------------------------------------------------------------

\* The fields of the LogoutRequest schema.
LogoutRequestFields == {"redirect_uri", "state"}

\* ESIAService.build_logout_url: the first statement logs request.client_id.
BuildLogoutUrl ==
    IF "client_id" \notin LogoutRequestFields THEN "AttributeError" ELSE "logout_url"

\* GET /auth/logout.  user_id: the user whose browser sends the request; the
\* handler has no parameter that names a user and no database session.
\* uri_in / settings_redirect_uri as for GET /auth/authorize.
Logout(user_id, uri_in, settings_redirect_uri) ==
    LET uri == IF uri_in = Null THEN settings_redirect_uri ELSE uri_in IN
    /\ resp' = [op |-> "logout", user_id |-> user_id,
                status |-> IF uri = Null THEN 422
                           ELSE IF BuildLogoutUrl # "logout_url" THEN 400 ELSE 200,
                ret |-> IF uri = Null THEN "ValidationError" ELSE BuildLogoutUrl]
    /\ UNCHANGED <<ledgerVars, storeVars>>

NextLogout ==
    \/ \E sub \in Named(StoredUids, Uids) : CallCreateOrUpdateUserFromEsia(sub, Null, Null)
    \/ \E u \in UserIds, a \in AccessTokens : CallSaveUserToken(u, a)
    \/ \E u \in UserIds, uri \in {Null} \cup Uris :
          \E cfg \in IF uri = Null THEN {Null} \cup Uris ELSE {Null} : Logout(u, uri, cfg)

SpecLogout == Init /\ [][NextLogout]_vars

\* C21: after a logout of a user (a request that passes validation), that
\* user has no active token.
C21_LogoutDeactivates ==
    [][ (resp'.op = "logout" /\ resp'.ret # "ValidationError")
        => ActiveTokens(tokens', resp'.user_id) = {} ]_vars

\* ------------------------------------------------------------------------
\* Further claims about the ledger (checked under SpecLedger)
\* ------------------------------------------------------------------------

\* C22: update_with_code on a row that is already completed with a code
\* succeeds: it returns the row, the stored row carries a code, is still
\* completed and has completed_at set, and no other row changes.
C22_ReplayOverwrites ==
    [][ ( /\ resp'.op = "update_with_code"
          /\ \E r \in ledger : r.state = resp'.state /\ CompletedSuccess(r) )
        => /\ resp'.ret = "row"
           /\ \E r \in ledger' :
                 /\ r.state = resp'.state
                 /\ r.is_completed
                 /\ r.authorization_code \in Codes
                 /\ r.completed_at # Null
           /\ \A r \in ledger : r.state # resp'.state => r \in ledger' ]_vars

\* ------------------------------------------------------------------------
\* Further claims about the batch (checked under SpecBatch)
\* ------------------------------------------------------------------------

\* C23: process_organizations_from_esia never deactivates a membership: a
\* row that is active before a batch is there, unchanged and active, after
\* it, whether or not the claims list names its organization.
C23_NeverDeactivates ==
    [][ Processed(resp') =>
          \A m \in memberships : m.is_active =>
             \E q \in memberships' :
                /\ q.user_id = m.user_id
                /\ q.organization_id = m.organization_id
                /\ q.is_active ]_vars

\* C23 witness: a batch of a user was processed whose list omits an
\* organization in which the user has an active membership.
C23_Witness ==
    /\ Processed(resp)
    /\ \E m \in memberships :
          /\ m.user_id = resp.user_id
          /\ m.is_active
          /\ \A i \in DOMAIN resp.organizations : resp.organizations[i] # m.organization_id

\* ------------------------------------------------------------------------
\* Claims about the access groups (checked under SpecGroup)
\* ------------------------------------------------------------------------

Ingested(r) == r.op = "process_groups_from_esia"

SamePair(g1, g2) ==
    g1.organization_id = g2.organization_id /\ g1.group_id = g2.group_id

\* C24: an ingestion of group claims leaves every stored group as it was;
\* each row it adds is a system group of the organization the claims name,
\* for a pair that had no row, with the URL of one of the claims and, as its
\* group_id, the part of that URL after "/grps/"; every URL of the claims
\* has a row afterwards; no pair ever has two rows; and nothing is created
\* when the oid is missing or names no stored organization.
C24_GroupsCreatedOnce ==
    [][ Ingested(resp') =>
          /\ groups \subseteq groups'
          /\ \A g1, g2 \in groups' : SamePair(g1, g2) => g1 = g2
          /\ \A g \in groups' \ groups :
                /\ g.is_system
                /\ ~\E h \in groups : SamePair(g, h)
                /\ \E o \in orgs : o.esia_oid = resp'.oid /\ o.id = g.organization_id
                /\ \E i \in DOMAIN resp'.elements :
                      /\ g.esia_url = resp'.elements[i]
                      /\ (\E k \in DOMAIN g.esia_url : g.esia_url[k] = Sep)
                            => \E k \in DOMAIN g.esia_url :
                                  /\ g.esia_url[k] = Sep
                                  /\ g.group_id = SubSeq(g.esia_url, k + 1, Len(g.esia_url))
          /\ (resp'.oid # Null /\ resp'.oid \in StoredOids) =>
                \A i \in DOMAIN resp'.elements :
                   \E g \in groups', k \in 0..Len(resp'.elements[i]) :
                      /\ g.group_id = SubSeq(resp'.elements[i], k + 1, Len(resp'.elements[i]))
                      /\ \E o \in orgs : o.esia_oid = resp'.oid /\ o.id = g.organization_id
          /\ (resp'.oid = Null \/ resp'.oid \notin StoredOids) => groups' = groups ]_vars

\* The claims named a URL whose group was stored under another URL, next to
\* a second group.
C24_Witness ==
    /\ Ingested(resp)
    /\ Cardinality(groups) >= 2
    /\ \E i \in DOMAIN resp.elements, g \in groups, o \in orgs :
          /\ o.esia_oid = resp.oid
          /\ g.organization_id = o.id
          /\ g.group_id = GroupIdOf(resp.elements[i])
          /\ g.esia_url # resp.elements[i]

\* ------------------------------------------------------------------------
\* Further claims about the flow (checked under SpecFlow)
\* ------------------------------------------------------------------------

\* C25: no step of GET /callback is rolled back when a later one fails.
\* When the callback brings a code for a state whose row exists and the
\* provider then refuses the token exchange or the user data request, the
\* row is completed with the code afterwards, and no user and no token was
\* created or changed.
C25_NoRollback ==
    [][ ( /\ resp'.op = "web_callback"
          /\ resp'.given = "code"
          /\ StateTaken(ledger, resp'.state)
          /\ \/ resp'.token_answer.status_code # 200
             \/ resp'.user_answer.status_code # 200 )
        => /\ \E r \in ledger' :
                 /\ r.state = resp'.state
                 /\ r.is_completed
                 /\ r.authorization_code \in Codes
           /\ users' = users
           /\ tokens' = tokens ]_vars

\* ------------------------------------------------------------------------
\* Claims about two requests at a time (SpecTokenRace, SpecUserRace)
\* ------------------------------------------------------------------------

C27_NoDuplicateUser ==
    [][ /\ \A u1, u2 \in users' : u1.esia_uid = u2.esia_uid => u1 = u2
        /\ ( /\ resp'.op = "create_or_update_user_from_esia"
             /\ ~resp'.found
             /\ UidTaken(users, resp'.esia_uid) )
           => /\ resp'.ret = "IntegrityError"
              /\ users' = users ]_vars

\* The second of two interleaved reconciliations was refused.
C27_Witness ==
    /\ resp.op = "create_or_update_user_from_esia"
    /\ ~resp.found
    /\ resp.ret = "IntegrityError"
    /\ \E u \in users : u.esia_uid = resp.esia_uid

\* ------------------------------------------------------------------------
\* Claims about the update of a user (checked under SpecPatch)
\* ------------------------------------------------------------------------

Patched(r) == r.op = "create_or_update_user_from_esia_with" /\ r.found /\ r.ret = "row"

\* C28: when a reconciliation updates a stored user, the stored name becomes
\* the claim's value, null when the claim is absent, and trusted becomes the
\* claim's value, false when it is absent; esia_uid and r_id_doc (and the
\* id) stay what they were, whatever the claims carry.
C28_UpdateOverwrites ==
    [][ Patched(resp') =>
          \E old \in users, new \in users' :
             /\ old.esia_uid = resp'.esia_uid
             /\ new.id = old.id
             /\ new.esia_uid = old.esia_uid
             /\ new.r_id_doc = old.r_id_doc
             /\ new.first_name = resp'.info.firstName
             /\ new.trusted = IF "trusted" \in DOMAIN resp'.info
                              THEN resp'.info.trusted ELSE FALSE
             /\ users' = (users \ {old}) \cup {new} ]_vars

\* An update without a first name and without a trusted flag, with a
\* document id, of a user stored without a document id, once every user
\* is stored.
C28_Witness ==
    /\ Patched(resp)
    /\ nextUserId > NumUids
    /\ resp.info.firstName = Null
    /\ "trusted" \notin DOMAIN resp.info
    /\ "rIdDoc" \in DOMAIN resp.info
    /\ \E u \in users :
          /\ u.esia_uid = resp.esia_uid
          /\ u.first_name = Null
          /\ u.r_id_doc = Null

\* ------------------------------------------------------------------------
\* Memberships while users and organizations are deleted (SpecMember)
\* ------------------------------------------------------------------------

\* Mutant of OrgRepoDelete: the DELETE of an organizations row on a schema
\* without cascading foreign keys.
OrgRepoDeleteWithoutCascade(orows, mrows, grows, org_id) ==
    IF ~\E o \in orows : o.id = org_id
    THEN [orgs |-> orows, memberships |-> mrows, ret |-> "False"]
    ELSE [orgs |-> { o \in orows : o.id # org_id }, memberships |-> mrows, ret |-> "True"]

\* OrganizationRepository.delete: get_by_id, db.delete, commit.  Organization
\* has the backrefs groups and addresses, declared without a delete cascade:
\* the unit of work first sets organization_id of the loaded groups to NULL,
\* which the NOT NULL column refuses (IntegrityError, nothing is stored).
\* UserOrganization has no relationship: its rows go with the DELETE
\* (ON DELETE CASCADE).
OrgRepoDelete(orows, mrows, grows, org_id) ==
    IF ~\E o \in orows : o.id = org_id
    THEN [orgs |-> orows, memberships |-> mrows, ret |-> "False"]
    ELSE IF \E g \in grows : g.organization_id = org_id
    THEN [orgs |-> orows, memberships |-> mrows, ret |-> "IntegrityError"]
    ELSE [orgs |-> { o \in orows : o.id # org_id },
          memberships |-> { m \in mrows : m.organization_id # org_id },
          ret |-> "True"]

\* DELETE /organizations/{org_id}: NotFoundError is an ESIAGatewayException
\* (404); any other exception is answered 500.
DeleteOrganization(org_id) ==
    LET r == OrgRepoDelete(orgs, memberships, groups, org_id) IN
    /\ orgs' = r.orgs
    /\ memberships' = r.memberships
    /\ resp' = [op |-> "delete_organization", org_id |-> org_id,
                ret |-> IF r.ret = "False" THEN "NotFoundError" ELSE r.ret,
                status |-> IF r.ret = "True" THEN 200
                           ELSE IF r.ret = "False" THEN 404 ELSE 500]
    /\ UNCHANGED <<ledgerVars, userVars, tokenVars, nextOrgId, groupVars, now, inflight>>

\* OrganizationRepository.get_user_organizations: Organization JOIN
\* UserOrganization (on organization_id = organizations.id), filtered by the
\* user and is_active; the organizations of the joined pairs.
GetUserOrganizations(orows, mrows, user_id) ==
    LET joined == { pair \in orows \X mrows : pair[2].organization_id = pair[1].id }
        kept == { pair \in joined : pair[2].user_id = user_id /\ pair[2].is_active }
    IN { pair[1] : pair \in kept }

\* GET /organizations/users/{user_id}
CallGetUserOrganizations(user_id) ==
    /\ resp' = [op |-> "get_user_organizations", user_id |-> user_id, ret |-> "list",
                status |-> 200,
                organizations |-> { o.id : o \in GetUserOrganizations(orgs, memberships, user_id) }]
    /\ UNCHANGED <<ledgerVars, storeVars>>

\* Users are created and deleted, reconcile one organization at a time (a
\* new one while the id sequence allows it), get inactive memberships
\* written directly, organizations get a group and are deleted, and the
\* organizations of any user id are listed.
NextMember ==
    \/ \E uid \in StoredUids \cup Named(StoredUids, Uids) : PostUser(uid, Null)
    \/ \E u \in UserIds : DeleteUser(u)
    \/ \E u \in users, l \in OrgListsUpTo(1) :
          /\ \A i \in DOMAIN l : l[i].oid # Null
          /\ nextOrgId <= NumOids \/ \A i \in DOMAIN l : l[i].oid \in StoredOids
          /\ CallProcessOrganizationsFromEsia(u.id, l)
    \/ \E u \in users, o \in orgs : AddUserOrganization(u.id, o.id, FALSE)
    \/ \E o \in StoredOids, url \in { g \in GroupUrls : Len(g) = 1 } :
          CallProcessGroupsFromEsia([oid |-> o, has_elements |-> TRUE, elements |-> <<url>>])
    \/ \E o \in OrgIds : DeleteOrganization(o)
    \/ \E u \in UserIds : CallGetUserOrganizations(u)

SpecMember == Init /\ [][NextMember]_vars

\* C29: in every state, also after delete_user and delete_organization,
\* each membership row refers to a stored user and a stored organization,
\* and get_user_organizations(u) returns exactly the stored organizations in
\* which u has a membership with is_active = true.
C29_MembershipsConsistent ==
    [][ /\ \A m \in memberships' :
              /\ \E u \in users' : u.id = m.user_id
              /\ \E o \in orgs' : o.id = m.organization_id
        /\ resp'.op = "get_user_organizations" =>
              \A o \in OrgIds :
                 o \in resp'.organizations <=>
                    /\ \E q \in orgs' : q.id = o
                    /\ \E m \in memberships' :
                          /\ m.user_id = resp'.user_id
                          /\ m.organization_id = o
                          /\ m.is_active ]_vars

\* The organizations of a stored user were listed after the organization
\* of its membership was deleted.
C29_Witness ==
    /\ resp.op = "get_user_organizations"
    /\ resp.organizations = {}
    /\ \E u \in users : u.id = resp.user_id
    /\ nextOrgId > 1
    /\ orgs = {}

\* ------------------------------------------------------------------------
\* Further claims about the API callback (checked under SpecLedger)
\* ------------------------------------------------------------------------

\* C30: GET /auth/callback for a state whose row exists: with an error
\* parameter (with or without a code) the row is completed with that error
\* afterwards and holds no authorization code; with a code only, the row is
\* completed with the code; with neither, the request is answered 400 and
\* the ledger is as it was.
C30_CallbackRecords ==
    [][ ( /\ resp'.op = "auth_callback"
          /\ \E r \in ledger : r.state = resp'.state )
        => /\ resp'.given = "error" =>
                 \E r \in ledger' : r.state = resp'.state /\ CompletedError(r)
           /\ resp'.given = "code" =>
                 \E r \in ledger' : r.state = resp'.state /\ CompletedSuccess(r)
           /\ resp'.given = "none" =>
                 /\ resp'.status = 400
                 /\ ledger' = ledger ]_vars

====
